---- MODULE Spec2Model ----
(***************************************************************************)
(* A model of the query orchestration engine of MCP-nlp2sql: the bounded   *)
(* tool-use loop of the two LLM backends (AnthropicService and             *)
(* OpenAIService), the legacy single-statement orchestrator                *)
(* (QueryService.process_query) with its managed Tool Session, the schema  *)
(* cache (SchemaService), the process-wide registry of query services with *)
(* the backend trace its requests share, and the replay of conversation    *)
(* history into provider messages, the tool-based request of               *)
(* SamplingService.process_query, and the MCPSession and MCPTransport      *)
(* wrappers.                                                               *)
(***************************************************************************)
EXTENDS Integers, Sequences, FiniteSets, TLC

VARIABLES
    responses,      \* the scripted replies of the LLM provider, one per model call
    maxIterations,  \* the max_iterations argument of process_chain
    serverTools,    \* the names of the tools discovered from the tool server (argument tools)
    toolOutcome,    \* how the tool server answers session.call_tool in this run
    chain,          \* per backend: the state of its process_chain call
    api_provider,   \* the backend the SamplingService was built with
    dbOutcomes,     \* what query_database answers to the first and the second execution
    refineReply,    \* what the provider answers to the refinement prompt
    req,            \* the request running through QueryService and with_session
    schema_service, \* one SchemaService: schema_cache, column_cache
    schemaCalls,    \* per request: its get_schema call on that SchemaService
    query_services, \* dependencies._query_services: server name -> query service
    services,       \* the query services constructed so far, each with its backend's trace
    clients,        \* per HTTP request: its get_query_service call and its process_query
    message_history,\* the history turns of the request whose messages are built
    formatted,      \* the outcome of _format_messages on that history
    sampling,       \* the requests that run SamplingService.process_query one after the other
    session,        \* one MCPSession, the ClientSession under it and the calls made on it
    transport,      \* one MCPTransport with its onclose callback
    managed,        \* one call of BaseMCPClient.with_sessions
    keystore,       \* the api_keys table and the calls made on it
    toolserver      \* the tool-server process: its pool, its handlers, its database

chainVars == <<responses, maxIterations, serverTools, toolOutcome, chain>>

queryVars == <<api_provider, dbOutcomes, refineReply, req>>

schemaVars == <<schema_service, schemaCalls>>

registryVars == <<query_services, services, clients>>

historyVars == <<message_history, formatted>>

samplingVars == <<sampling>>

sessionVars == <<session, transport>>

outerVars == <<managed, keystore, toolserver>>

vars == <<responses, maxIterations, serverTools, toolOutcome, chain,
          api_provider, dbOutcomes, refineReply, req,
          schema_service, schemaCalls, query_services, services, clients,
          message_history, formatted, sampling, session, transport,
          managed, keystore, toolserver>>

----------------------------------------------------------------------------
(* Bounds *)

\* maxIterations ranges over 0..MaxIter and as many provider replies are scripted
MaxIter == 2

\* each request slot makes at most MaxCalls get_schema calls, one after the other
MaxCalls == 2

\* a request carries at most MaxHistory turns of history
MaxHistory == 2

\* a service handles at most MaxRequests tool-based requests, one after the other
MaxRequests == 2

\* at most MaxOps calls are made on a session, and on a transport
MaxOps == 3

\* the longest list of server names given to with_sessions
MaxServers == 3

----------------------------------------------------------------------------
(* Values *)

Backends == {"anthropic", "openai"}

\* Python's None
NoneVal == "None"

\* Python truthiness of an Optional[str]: None and "" are falsy
Falsy(s) == s = NoneVal \/ s = ""

\* a or b
Or(a, b) == IF Falsy(a) THEN b ELSE a

DefaultExplanation == "Executing operations..."

ExceededMessage == "Exceeded maximum tool use iterations"

\* BaseLLMTools.tools: the names of the fixed domain catalogue, in order
tools ==
    << "list_charts", "load_chart", "create_chart", "update_chart",
       "delete_chart", "rearrange_dashboard", "add_markdown",
       "get_dashboard_cards" >>

\* a lookup in which a discovered server tool of the same name takes precedence
IsCatalogueToolUnlessServer(name) ==
    (\E i \in DOMAIN tools : tools[i] = name) /\ name \notin serverTools

\* name in [t["name"] for t in self.tools]
IsCatalogueTool(name) == \E i \in DOMAIN tools : tools[i] = name

\* json.dumps of a dict (dicts are written by their items, JSON text by the braced items)
JsonDumps(d) == "{" \o d \o "}"

\* json.loads of the JSON text of a dict
JsonLoads(s) == SubSeq(s, 2, Len(s) - 1)

\* a content block of a provider reply; also the shape of RawLLMContent
Block(type, text, id, name, input) ==
    [type |-> type, text |-> text, id |-> id, name |-> name, input |-> input]

Text(t) == Block("text", t, NoneVal, NoneVal, NoneVal)

ToolUse(id, name, input) == Block("tool_use", NoneVal, id, name, input)

\* RawLLMContent(type=..., text=..., id=..., name=..., input=...)
RawLLMContent(type, text, id, name, input) == Block(type, text, id, name, input)

\* an invocation that carries the arguments as their JSON text
ToolInvocationUnparsed(name, params) == [type |-> name, params |-> JsonDumps(params)]

\* {"type": name, "params": arguments}
ToolInvocation(name, params) == [type |-> name, params |-> params]

Reply(content) == [error |-> FALSE, content |-> content]

\* the provider call raises (network, authentication, rate limit)
ApiFailure == [error |-> TRUE, content |-> << >>]

\* The replies a model call can produce
ModelResponses ==
    { Reply(<< >>),
      Reply(<< Text("Sales by month") >>),
      Reply(<< Text("Sales"), Text("by month") >>),
      Reply(<< ToolUse("call_1", "create_chart", "sql=q1") >>),
      Reply(<< Text("Here is the chart"), ToolUse("call_1", "create_chart", "sql=q1") >>),
      Reply(<< ToolUse("call_1", "create_chart", "sql=q1"),
               ToolUse("call_2", "add_markdown", "text=t1") >>),
      Reply(<< ToolUse("call_3", "list_tables", "") >>),
      Reply(<< Text("Let me look at the tables"), ToolUse("call_3", "list_tables", "") >>),
      Reply(<< ToolUse("call_3", "list_tables", ""),
               ToolUse("call_1", "create_chart", "sql=q1") >>),
      Reply(<< ToolUse("call_1", "create_chart", "sql=q1"),
               ToolUse("call_4", "query_database", "query=q1") >>),
      Reply(<< ToolUse("call_5", "list_charts", "") >>),
      ApiFailure }

RECURSIVE SeqsOfLen(_, _)
SeqsOfLen(S, n) ==
    IF n = 0 THEN { << >> }
    ELSE { Append(s, x) : s \in SeqsOfLen(S, n - 1), x \in S }

\* The tool lists a server can advertise; the second one collides with the catalogue
DiscoveredToolSets ==
    { {"query_database", "list_tables", "describe_table"},
      {"query_database", "list_tables", "list_charts"} }

ToolOutcomes == {"text", "empty", "raise"}

\* The caller's message list
InitialMessages == << [role |-> "user", content |-> "total sales by month"] >>

----------------------------------------------------------------------------
(* The Tool Session as the backends use it *)

\* session.call_tool(name, arguments): the result's content, or the call raises
call_tool(name, arguments) ==
    CASE toolOutcome = "raise" -> [raised |-> TRUE, content |-> << >>]
      [] toolOutcome = "empty" -> [raised |-> FALSE, content |-> << >>]
      [] OTHER -> [raised |-> FALSE, content |-> << [text |-> "result of " \o name] >>]

\* tool_result.content[0].text if tool_result.content else ""
ResultText(tool_result) ==
    IF tool_result.content # << >> THEN tool_result.content[1].text ELSE ""

----------------------------------------------------------------------------
(* Results of process_chain *)

NoResult == [kind |-> "none", explanation |-> NoneVal, tool_calls |-> << >>,
             exc |-> NoneVal, msg |-> NoneVal]

\* return json.dumps({"explanation": ..., "tool_calls": ...})
Return(explanation, tool_calls) ==
    [kind |-> "return", explanation |-> explanation, tool_calls |-> tool_calls,
     exc |-> NoneVal, msg |-> NoneVal]

\* raise exc(msg)
Raise(exc, msg) ==
    [kind |-> "raise", explanation |-> NoneVal, tool_calls |-> << >>,
     exc |-> exc, msg |-> msg]

\* the state of a backend instance before process_chain is called
IdleChain ==
    [pc |-> "idle", iteration |-> 0, modelCalls |-> 0,
     messages |-> InitialMessages, callerMessages |-> InitialMessages,
     last_raw_response |-> << >>, sessionCalls |-> << >>, result |-> NoResult]

\* a loop test that admits one pass too many
LoopOrExceedOffByOne(st, max_iterations) ==
    IF st.iteration <= max_iterations
    THEN [st EXCEPT !.pc = "loop"]
    ELSE [st EXCEPT !.pc = "done", !.result = Raise("SamplingError", ExceededMessage)]

\* while iteration < max_iterations: ... ; raise SamplingError("Exceeded ...")
LoopOrExceed(st, max_iterations) ==
    IF st.iteration < max_iterations
    THEN [st EXCEPT !.pc = "loop"]
    ELSE [st EXCEPT !.pc = "done", !.result = Raise("SamplingError", ExceededMessage)]

\* "\n".join(content.text for content in response.content if content.type == "text")
RECURSIVE JoinText(_, _)
JoinText(content, i) ==
    IF i > Len(content) THEN ""
    ELSE LET rest == JoinText(content, i + 1)
             laterText == \E j \in (i + 1)..Len(content) : content[j].type = "text"
         IN  IF content[i].type = "text"
             THEN content[i].text \o (IF laterText THEN "\n" ELSE "") \o rest
             ELSE rest

HasText(content) == \E i \in DOMAIN content : content[i].type = "text"

----------------------------------------------------------------------------
(* AnthropicService.process_chain *)

\* what the for loop over response.content has built so far
RoundStart(st) ==
    [tool_calls |-> << >>, last_raw_response |-> st.last_raw_response,
     messages |-> st.messages, sessionCalls |-> st.sessionCalls, raised |-> FALSE]

\* for content in response.content: ... (one pass of the loop body per block; a
\* raising session.call_tool leaves the loop and the function)
RECURSIVE AnthropicBlocks(_, _, _)
AnthropicBlocks(content, i, acc) ==
    IF i > Len(content) \/ acc.raised THEN acc
    ELSE LET c == content[i] IN
         IF c.type = "tool_use"
         THEN IF IsCatalogueTool(c.name)
              THEN AnthropicBlocks(content, i + 1,
                     [acc EXCEPT
                        !.tool_calls = Append(@, ToolInvocation(c.name, c.input)),
                        !.last_raw_response = Append(@,
                            RawLLMContent("tool_call",
                                "{tool: " \o c.name \o ", params: " \o JsonDumps(c.input) \o "}",
                                c.id, c.name, c.input))])
              ELSE LET tool_result == call_tool(c.name, c.input) IN
                   IF tool_result.raised
                   THEN [acc EXCEPT !.raised = TRUE,
                                    !.sessionCalls = Append(@, c.name)]
                   ELSE AnthropicBlocks(content, i + 1,
                          [acc EXCEPT
                             !.sessionCalls = Append(@, c.name),
                             !.messages = @ \o
                                << [role |-> "assistant", type |-> "tool_use",
                                    id |-> c.id, name |-> c.name, input |-> c.input],
                                   [role |-> "user", type |-> "tool_result",
                                    tool_use_id |-> c.id,
                                    content |-> ResultText(tool_result)] >>])
         ELSE AnthropicBlocks(content, i + 1,
                [acc EXCEPT !.last_raw_response = Append(@,
                    RawLLMContent(c.type, c.text, c.id, c.name, c.input))])

\* a text answer that is replaced by the default explanation
TextResponseDefault(text_response) == Return(DefaultExplanation, << >>)

\* return json.dumps({"explanation": text_response, "tool_calls": []})
TextResponse(text_response) == Return(text_response, << >>)

\* what follows the for loop: return on domain tool calls, return on text, or
\* iteration += 1 and the loop test
AnthropicDecide(st, content, acc, max_iterations) ==
    LET text_response == JoinText(content, 1)
        seen == [st EXCEPT !.last_raw_response = acc.last_raw_response,
                           !.messages = acc.messages,
                           !.callerMessages = acc.messages,
                           !.sessionCalls = acc.sessionCalls]
    IN  IF acc.tool_calls # << >>
        THEN [seen EXCEPT !.pc = "done",
                          !.result = Return(Or(text_response, DefaultExplanation),
                                            acc.tool_calls)]
        ELSE IF ~Falsy(text_response)
        THEN [seen EXCEPT !.pc = "done", !.result = TextResponse(text_response)]
        ELSE LoopOrExceed([seen EXCEPT !.iteration = @ + 1], max_iterations)

\* one pass of the while loop: the model call, the blocks, the decision
AnthropicRound(st, response, max_iterations) ==
    LET called == [st EXCEPT !.modelCalls = @ + 1] IN
    IF response.error
    THEN [called EXCEPT !.pc = "done", !.result = Raise("APIError", "provider call failed")]
    ELSE LET acc == AnthropicBlocks(response.content, 1, RoundStart(called)) IN
         IF acc.raised
         THEN [called EXCEPT !.pc = "done",
                             !.last_raw_response = acc.last_raw_response,
                             !.messages = acc.messages,
                             !.callerMessages = acc.messages,
                             !.sessionCalls = acc.sessionCalls,
                             !.result = Raise("ToolError", "call_tool failed")]
         ELSE AnthropicDecide(called, response.content, acc, max_iterations)

\* a start that keeps the trace of the call before
AnthropicStartKeepsTrace(st, messages, max_iterations) ==
    LoopOrExceed([st EXCEPT !.iteration = 0,
                            !.messages = messages, !.callerMessages = messages,
                            !.result = NoResult],
                 max_iterations)

\* self.last_raw_response = []; iteration = 0; the first loop test
AnthropicStart(st, messages, max_iterations) ==
    LoopOrExceed([st EXCEPT !.last_raw_response = << >>, !.iteration = 0,
                            !.messages = messages, !.callerMessages = messages,
                            !.result = NoResult],
                 max_iterations)

----------------------------------------------------------------------------
(* OpenAIService.process_chain *)

\* the copy of one message into formatted_messages
FormatMessage(msg) ==
    LET hasCalls == "tool_calls" \in DOMAIN msg
        hasId == "tool_call_id" \in DOMAIN msg
    IN  CASE hasCalls /\ hasId ->
               [role |-> msg.role, content |-> msg.content,
                tool_calls |-> msg.tool_calls, tool_call_id |-> msg.tool_call_id]
          [] hasCalls /\ ~hasId ->
               [role |-> msg.role, content |-> msg.content, tool_calls |-> msg.tool_calls]
          [] ~hasCalls /\ hasId ->
               [role |-> msg.role, content |-> msg.content,
                tool_call_id |-> msg.tool_call_id]
          [] OTHER -> [role |-> msg.role, content |-> msg.content]

\* the tool_use blocks of a reply, in order, as the chat-completions message carries
\* them: {id, function: {name, arguments: <JSON text>}}
RECURSIVE WireToolCalls(_, _)
WireToolCalls(content, i) ==
    IF i > Len(content) THEN << >>
    ELSE IF content[i].type = "tool_use"
         THEN << [id |-> content[i].id, name |-> content[i].name,
                  arguments |-> JsonDumps(content[i].input)] >>
              \o WireToolCalls(content, i + 1)
         ELSE WireToolCalls(content, i + 1)

\* response.choices[0].message: content is the reply's text or None, tool_calls its
\* proposed calls
ChoiceMessage(response) ==
    [content |-> IF HasText(response.content) THEN JoinText(response.content, 1)
                 ELSE NoneVal,
     tool_calls |-> WireToolCalls(response.content, 1)]

\* for tool_call in message.tool_calls: ...
RECURSIVE OpenAIToolCalls(_, _, _)
OpenAIToolCalls(calls, i, acc) ==
    IF i > Len(calls) \/ acc.raised THEN acc
    ELSE LET tool_call == calls[i]
             tool_name == tool_call.name
             tool_args == JsonLoads(tool_call.arguments)
         IN  IF IsCatalogueTool(tool_name)
             THEN OpenAIToolCalls(calls, i + 1,
                    [acc EXCEPT
                       !.tool_calls = Append(@, ToolInvocation(tool_name, tool_args)),
                       !.last_raw_response = Append(@,
                           RawLLMContent("tool_call",
                               "{tool: " \o tool_name \o ", params: " \o JsonDumps(tool_args) \o "}",
                               tool_call.id, tool_name, tool_args))])
             ELSE LET tool_result == call_tool(tool_name, tool_args) IN
                  IF tool_result.raised
                  THEN [acc EXCEPT !.raised = TRUE,
                                   !.sessionCalls = Append(@, tool_name)]
                  ELSE OpenAIToolCalls(calls, i + 1,
                         [acc EXCEPT
                            !.sessionCalls = Append(@, tool_name),
                            !.messages = @ \o
                               << [role |-> "assistant", content |-> NoneVal,
                                   tool_calls |-> << [id |-> tool_call.id,
                                                      type |-> "function",
                                                      name |-> tool_name,
                                                      arguments |-> JsonDumps(tool_args)] >>],
                                  [role |-> "tool",
                                   content |-> ResultText(tool_result),
                                   tool_call_id |-> tool_call.id] >>])

\* one pass of the while loop, inside its try / except Exception
OpenAIRound(st, response, max_iterations) ==
    LET called == [st EXCEPT !.modelCalls = @ + 1]
        failed == Raise("SamplingError", "OpenAI API call failed")
    IN
    IF response.error
    THEN [called EXCEPT !.pc = "done", !.result = failed]
    ELSE LET message == ChoiceMessage(response) IN
         IF message.tool_calls # << >>
         THEN LET acc == OpenAIToolCalls(message.tool_calls, 1, RoundStart(called))
                  seen == [called EXCEPT !.last_raw_response = acc.last_raw_response,
                                         !.messages = acc.messages,
                                         !.sessionCalls = acc.sessionCalls]
              IN  IF acc.raised
                  THEN [seen EXCEPT !.pc = "done", !.result = failed]
                  ELSE IF acc.tool_calls # << >>
                  THEN [seen EXCEPT !.pc = "done",
                                    !.result = Return(Or(message.content, DefaultExplanation),
                                                      acc.tool_calls)]
                  ELSE LoopOrExceed([seen EXCEPT !.iteration = @ + 1], max_iterations)
         ELSE [called EXCEPT
                 !.pc = "done",
                 !.last_raw_response =
                     << RawLLMContent("text", message.content, NoneVal, NoneVal, NoneVal) >>,
                 !.result = Return(message.content, << >>)]

\* self.last_raw_response = []; iteration = 0; formatted_messages; the first loop test
OpenAIStart(st, messages, max_iterations) ==
    LoopOrExceed([st EXCEPT !.last_raw_response = << >>, !.iteration = 0,
                            !.messages = [i \in DOMAIN messages |-> FormatMessage(messages[i])],
                            !.callerMessages = messages,
                            !.result = NoResult],
                 max_iterations)

----------------------------------------------------------------------------
(* The two backends behind BaseLLMService.process_chain *)

ChainStart(b, st, messages, max_iterations) ==
    IF b = "anthropic" THEN AnthropicStart(st, messages, max_iterations)
    ELSE OpenAIStart(st, messages, max_iterations)

ChainRound(b, st, response, max_iterations) ==
    IF b = "anthropic" THEN AnthropicRound(st, response, max_iterations)
    ELSE OpenAIRound(st, response, max_iterations)

\* a caller enters process_chain of backend b
StartChain(b) ==
    /\ chain[b].pc = "idle"
    /\ chain' = [chain EXCEPT ![b] = ChainStart(b, @, InitialMessages, maxIterations)]
    /\ UNCHANGED <<responses, maxIterations, serverTools, toolOutcome>>
    /\ UNCHANGED <<queryVars, schemaVars, registryVars, historyVars, samplingVars, sessionVars, outerVars>>

\* backend b runs one pass of its loop on the provider's next reply
Round(b) ==
    /\ chain[b].pc = "loop"
    /\ chain' = [chain EXCEPT
                   ![b] = ChainRound(b, @, responses[@.modelCalls + 1], maxIterations)]
    /\ UNCHANGED <<responses, maxIterations, serverTools, toolOutcome>>
    /\ UNCHANGED <<queryVars, schemaVars, registryVars, historyVars, samplingVars, sessionVars, outerVars>>

----------------------------------------------------------------------------
(* Text helpers *)

CharAt(s, i) == SubSeq(s, i, i)

StartsWith(s, p) == Len(s) >= Len(p) /\ SubSeq(s, 1, Len(p)) = p

\* p in s
Contains(s, p) ==
    \E i \in 1..(Len(s) - Len(p) + 1) : SubSeq(s, i, i + Len(p) - 1) = p

\* how many braces are open before position i
Depth(s, i) ==
    Cardinality({ j \in 1..(i - 1) : CharAt(s, j) = "{" })
    - Cardinality({ j \in 1..(i - 1) : CharAt(s, j) = "}" })

\* json.loads accepts the text of an object
IsJsonText(s) == Len(s) >= 2 /\ CharAt(s, 1) = "{" /\ CharAt(s, Len(s)) = "}"

\* re.search(r'({[\s\S]*})', text): from the first "{" to the last "}", or None
RegexBraces(s) ==
    LET opens == { i \in 1..Len(s) : CharAt(s, i) = "{" }
        closes == { i \in 1..Len(s) : CharAt(s, i) = "}" }
    IN  IF opens = {} \/ closes = {} THEN NoneVal
        ELSE LET first == CHOOSE i \in opens : \A j \in opens : i <= j
                 last == CHOOSE i \in closes : \A j \in closes : j <= i
             IN  IF first < last THEN SubSeq(s, first, last) ELSE NoneVal

\* key in json.loads(s): the key stands directly inside the outermost braces
HasKey(s, key) ==
    \E i \in 1..(Len(s) - Len(key) - 1) :
        /\ SubSeq(s, i, i + Len(key) + 1) = key \o ": "
        /\ Depth(s, i) = 1
        /\ (i = 2 \/ SubSeq(s, i - 2, i - 1) = ", ")

\* json.loads(s)[key], for a key of s
ValueOf(s, key) ==
    LET i == CHOOSE i \in 1..(Len(s) - Len(key) - 1) :
                 /\ SubSeq(s, i, i + Len(key) + 1) = key \o ": "
                 /\ Depth(s, i) = 1
                 /\ (i = 2 \/ SubSeq(s, i - 2, i - 1) = ", ")
        from == i + Len(key) + 2
        ends == { j \in from..Len(s) :
                     /\ Depth(s, j) = 1
                     /\ (CharAt(s, j) = "}" \/ SubSeq(s, j, j + 1) = ", ") }
        to == CHOOSE j \in ends : \A k \in ends : j <= k
    IN  SubSeq(s, from, to - 1)

\* json.dumps of the list of tool invocations
RECURSIVE DumpToolCalls(_, _)
DumpToolCalls(tool_calls, i) ==
    IF i > Len(tool_calls) THEN ""
    ELSE "{type: " \o tool_calls[i].type \o ", params: " \o JsonDumps(tool_calls[i].params) \o "}"
         \o (IF i < Len(tool_calls) THEN ", " ELSE "")
         \o DumpToolCalls(tool_calls, i + 1)

\* json.dumps({"explanation": explanation, "tool_calls": tool_calls}): what
\* process_chain returns
EnvelopeText(result) ==
    "{explanation: "
    \o (IF result.explanation = NoneVal THEN "null" ELSE result.explanation)
    \o ", tool_calls: [" \o DumpToolCalls(result.tool_calls, 1) \o "]}"

----------------------------------------------------------------------------
(* process_chain as one call *)

\* max_iterations: int = 5
AnthropicDefaultMaxIterations == 5

\* max_iterations: int = 10
OpenAIDefaultMaxIterations == 10

DefaultMaxIterations(b) ==
    IF b = "anthropic" THEN AnthropicDefaultMaxIterations ELSE OpenAIDefaultMaxIterations

\* the loop of process_chain against a provider that gives the same reply to every call
RECURSIVE RunChain(_, _, _, _)
RunChain(b, st, reply, max_iterations) ==
    IF st.pc = "loop"
    THEN RunChain(b, ChainRound(b, st, reply, max_iterations), reply, max_iterations)
    ELSE st

\* await self.llm_service.process_chain(session=..., messages=..., tools=[])
process_chain(b, messages, reply) ==
    RunChain(b, ChainStart(b, IdleChain, messages, DefaultMaxIterations(b)),
             reply, DefaultMaxIterations(b))

----------------------------------------------------------------------------
(* SamplingService.refine_sql *)

Refined(sql, modelCalls) ==
    [kind |-> "return", sql |-> sql, exc |-> NoneVal, msg |-> NoneVal,
     modelCalls |-> modelCalls]

RefineFailed(msg, modelCalls) ==
    [kind |-> "raise", sql |-> NoneVal, exc |-> "SamplingError",
     msg |-> "Failed to refine SQL: " \o msg, modelCalls |-> modelCalls]

\* response = json.loads(json_match.group(1)); return response["sql"], ...
ParseRefinement(final_text, modelCalls) ==
    LET json_match == RegexBraces(final_text) IN
    IF Falsy(final_text)
    THEN RefineFailed("No text response received from LLM during refinement", modelCalls)
    ELSE IF json_match = NoneVal
    THEN RefineFailed("No valid JSON response found in LLM refinement output", modelCalls)
    ELSE IF ~IsJsonText(json_match)
    THEN RefineFailed("JSONDecodeError", modelCalls)
    ELSE IF ~HasKey(json_match, "sql")
    THEN RefineFailed("'sql'", modelCalls)
    ELSE IF ~HasKey(json_match, "explanation")
    THEN RefineFailed("'explanation'", modelCalls)
    ELSE IF ~HasKey(json_match, "thought_process")
    THEN RefineFailed("'thought_process'", modelCalls)
    ELSE Refined(ValueOf(json_match, "sql"), modelCalls)

\* refine_sql(session, original_sql, error_message, schema), with the provider's reply
refine_sql(b, original_sql, error_message, reply) ==
    LET prompt == << [role |-> "user",
                      content |-> "Fix " \o original_sql \o " Error: " \o error_message] >>
        ran == process_chain(b, prompt, reply)
    IN  IF ran.result.kind = "raise"
        THEN RefineFailed(ran.result.msg, ran.modelCalls)
        ELSE ParseRefinement(EnvelopeText(ran.result), ran.modelCalls)

----------------------------------------------------------------------------
(* QueryService._execute_query *)

\* results of session.call_tool("query_database", {"query": sql})
ToolResult(content) == [raised |-> FALSE, content |-> content]

TextContent(text) == [hasText |-> TRUE, text |-> text]

QueryRows == ToolResult(<< TextContent("{columns: [month], rows: []}") >>)

QueryDbError == ToolResult(<< TextContent("(1054, Unknown column 'mnth' in 'field list')") >>)

QueryGarbage == ToolResult(<< TextContent("Error: connection lost") >>)

QueryEmptyText == ToolResult(<< TextContent("") >>)

QueryNoText == ToolResult(<< [hasText |-> FALSE, text |-> NoneVal] >>)

QueryNoContent == ToolResult(<< >>)

QueryRaises == [raised |-> TRUE, content |-> << >>]

QueryOutcomes ==
    { QueryRows, QueryDbError, QueryGarbage, QueryEmptyText, QueryNoText,
      QueryNoContent, QueryRaises }

ExecResult(value) == [kind |-> "result", value |-> value, exc |-> NoneVal, msg |-> NoneVal]

ExecRefine(value) == [kind |-> "refine", value |-> value, exc |-> NoneVal, msg |-> NoneVal]

ExecRaise(msg) == [kind |-> "raise", value |-> NoneVal, exc |-> "QueryError", msg |-> msg]

\* next((content.text for content in result.content if hasattr(content, 'text')), None)
RECURSIVE FirstText(_, _)
FirstText(content, i) ==
    IF i > Len(content) THEN NoneVal
    ELSE IF content[i].hasText THEN content[i].text
    ELSE FirstText(content, i + 1)

\* if result_text.startswith('(') and 'Unknown column' in result_text
IsDbErrorShape(result_text) ==
    StartsWith(result_text, "(") /\ Contains(result_text, "Unknown column")

\* the body of the outer try of _execute_query
ExecuteBody(result, retry) ==
    IF result.raised THEN ExecRaise("tool call failed")
    ELSE IF result.content = << >>
    THEN ExecRaise("No result content returned from query")
    ELSE LET result_text == FirstText(result.content, 1) IN
         IF Falsy(result_text) THEN ExecRaise("No text content in query result")
         ELSE IF IsJsonText(result_text) THEN ExecResult(result_text)
         ELSE IF IsDbErrorShape(result_text)
         THEN IF retry THEN ExecRefine(result_text)
              ELSE ExecRaise("MySQL Error: " \o result_text)
         ELSE ExecRaise("Failed to parse query result")

\* _execute_query(session, sql, retry): (result, needs_refinement) or QueryError
\* except Exception as e: if retry: return str(e), True
execute_query(result, retry) ==
    LET body == ExecuteBody(result, retry) IN
    IF body.kind = "raise"
    THEN IF retry THEN ExecRefine(body.msg)
         ELSE ExecRaise("Query execution failed: " \o body.msg)
    ELSE body

----------------------------------------------------------------------------
(* Exceptions and outcomes of a request *)

\* app/core/exceptions.py: SchemaError, QueryError and SamplingError extend MCPError
IsInstance(exc, cls) ==
    \/ exc = cls
    \/ cls = "MCPError" /\ exc \in {"SchemaError", "QueryError", "SamplingError"}
    \/ cls = "Exception"

NoOutcome == [kind |-> "none", value |-> NoneVal, exc |-> NoneVal, msg |-> NoneVal]

Returned(value) == [kind |-> "return", value |-> value, exc |-> NoneVal, msg |-> NoneVal]

Raised(exc, msg) == [kind |-> "raise", value |-> NoneVal, exc |-> exc, msg |-> msg]

\* the fields QueryResponse requires (no default): explanation and tool_calls
QueryResponseRequired == {"explanation", "tool_calls"}

\* QueryResponse(**given): pydantic raises when a required field is missing
QueryResponse(given, value) ==
    IF QueryResponseRequired \subseteq given THEN Returned(value)
    ELSE Raised("ValidationError", "Field required")

\* process_with_session: except Exception as e: QueryError is re-raised, anything
\* else becomes QueryError(str(e))
ProcessWithSessionRaise(e) ==
    IF IsInstance(e.exc, "QueryError") THEN e ELSE Raised("QueryError", e.msg)

\* create_session: except Exception as e: raise MCPError("Failed to create MCP session ...")
CreateSessionRaise(e) ==
    Raised("MCPError", "Failed to create MCP session for 'mysql': " \o e.msg)

\* process_query: except Exception as e: MCPError and QueryError are re-raised
ProcessQueryRaise(e) ==
    IF IsInstance(e.exc, "MCPError") \/ IsInstance(e.exc, "QueryError") THEN e
    ELSE Raised("QueryError", "Failed to process query: " \o e.msg)

\* get_capabilities: except Exception as e: raise MCPError("Failed to get capabilities: ...")
GetCapabilitiesRaise(e) == Raised("MCPError", "Failed to get capabilities: " \o e.msg)

\* the except clause of the operation that called with_session
CallerRaise(operation, e) ==
    IF operation = "process_query" THEN ProcessQueryRaise(e) ELSE GetCapabilitiesRaise(e)

\* the except clause of the callback passed to with_session (get_caps re-raises)
CallbackRaise(operation, e) ==
    IF operation = "process_query" THEN ProcessWithSessionRaise(e) ELSE e

----------------------------------------------------------------------------
(* BaseMCPClient.with_session and the requests of QueryService *)

Operations == {"process_query", "get_capabilities"}

IdleRequest(operation) ==
    [operation |-> operation, pc |-> "start",
     conn |-> "none", session |-> "none", initialized |-> FALSE,
     sql_query |-> NoneVal, result |-> NoneVal,
     executions |-> << >>, refineCalls |-> 0, refineModelCalls |-> 0,
     steps |-> << >>,
     pending |-> NoOutcome, outcome |-> NoOutcome]

\* a release that runs only when the block returned
ExitSessionOnReturn(r) ==
    IF r.pending.kind = "return" THEN [r EXCEPT !.session = "closed", !.conn = "closed"]
    ELSE r

\* leaving "async with ClientSession(...)" and "async with stdio_client(...)": the
\* session and the connection to the tool server are closed
ExitSession(r) == [r EXCEPT !.session = "closed", !.conn = "closed"]

\* the calls of a request in the order they are made: the session acquired by
\* create_session, then each awaited call of the callback, then the context exit
Step(r, name) == [r EXCEPT !.steps = Append(@, name)]

\* the first call of the callback once the session is initialized: get_schema in
\* process_with_session, list_prompts in get_caps
AfterInitializeSkipsSchema(operation) ==
    IF operation = "process_query" THEN "generate" ELSE "prompts"

AfterInitialize(operation) ==
    IF operation = "process_query" THEN "schema" ELSE "prompts"

\* the callback is over (it returned or raised): control goes to the context exit
Finish(r, outcome) == [r EXCEPT !.pc = "release", !.pending = outcome]

\* with_session: async with self.create_session(server_name): the server parameters,
\* the tool-server process and the ClientSession
CreateSession ==
    /\ req.pc = "start"
    /\ \/ req' = [Step(req, "create_session") EXCEPT
                    !.pc = "initialize", !.conn = "open", !.session = "open"]
       \/ \* get_server_config raises before the try block
          req' = [req EXCEPT
                    !.pc = "done",
                    !.outcome = CallerRaise(req.operation,
                        Raised("MCPError", "Server 'mysql' not found in configuration"))]
       \/ \* stdio_client cannot start the server
          req' = [req EXCEPT
                    !.pc = "done",
                    !.outcome = CallerRaise(req.operation,
                        CreateSessionRaise(Raised("OSError", "No such file or directory")))]
    /\ UNCHANGED <<api_provider, dbOutcomes, refineReply>>
    /\ UNCHANGED <<chainVars, schemaVars, registryVars, historyVars, samplingVars, sessionVars, outerVars>>

\* await mcp_session.initialize()
InitializeSession ==
    /\ req.pc = "initialize"
    /\ LET called == Step(req, "initialize") IN
       \/ req' = [called EXCEPT
                    !.initialized = TRUE,
                    !.pc = AfterInitialize(req.operation)]
       \/ req' = Finish(called, Raised("MCPError", "Failed to initialize MCP session:  "))
    /\ UNCHANGED <<api_provider, dbOutcomes, refineReply>>
    /\ UNCHANGED <<chainVars, schemaVars, registryVars, historyVars, samplingVars, sessionVars, outerVars>>

\* get_caps: prompts = await session.list_prompts()
ListPrompts ==
    /\ req.pc = "prompts"
    /\ LET called == Step(req, "list_prompts") IN
       \/ req' = [called EXCEPT !.pc = "schema"]
       \/ req' = Finish(called, CallbackRaise(req.operation,
                                   Raised("Exception", "list_prompts failed")))
    /\ UNCHANGED <<api_provider, dbOutcomes, refineReply>>
    /\ UNCHANGED <<chainVars, schemaVars, registryVars, historyVars, samplingVars, sessionVars, outerVars>>

\* schema = await self.schema_service.get_schema(session)
GetSchema ==
    /\ req.pc = "schema"
    /\ LET called == Step(req, "get_schema") IN
       \/ req' = IF req.operation = "process_query"
                 THEN [called EXCEPT !.pc = "generate"]
                 ELSE Finish(called, Returned("capabilities"))
       \/ req' = Finish(called, CallbackRaise(req.operation,
                                   Raised("SchemaError", "Failed to get database schema")))
    /\ UNCHANGED <<api_provider, dbOutcomes, refineReply>>
    /\ UNCHANGED <<chainVars, schemaVars, registryVars, historyVars, samplingVars, sessionVars, outerVars>>

\* sql_query, ... = await self.sampling_service.generate_sql_and_viz(...)
GenerateSql ==
    /\ req.pc = "generate"
    /\ LET called == Step(req, "generate_sql_and_viz") IN
       \/ req' = [called EXCEPT !.pc = "execute", !.sql_query = "SELECT mnth FROM orders"]
       \/ req' = Finish(called, CallbackRaise(req.operation,
                                   Raised("SamplingError", "Failed to generate SQL")))
    /\ UNCHANGED <<api_provider, dbOutcomes, refineReply>>
    /\ UNCHANGED <<chainVars, schemaVars, registryVars, historyVars, samplingVars, sessionVars, outerVars>>

\* result, needs_refinement = await self._execute_query(session, sql_query)
ExecuteSql ==
    /\ req.pc = "execute"
    /\ LET ran == execute_query(dbOutcomes[1], TRUE)
           logged == [Step(req, "query_database") EXCEPT
                        !.executions = Append(@, [sql |-> req.sql_query, retry |-> TRUE])]
       IN  req' = CASE ran.kind = "refine" -> [logged EXCEPT !.pc = "refine", !.result = ran.value]
                    [] ran.kind = "result" -> [logged EXCEPT !.pc = "respond", !.result = ran.value]
                    [] OTHER -> Finish(logged, CallbackRaise(req.operation, ran))
    /\ UNCHANGED <<api_provider, dbOutcomes, refineReply>>
    /\ UNCHANGED <<chainVars, schemaVars, registryVars, historyVars, samplingVars, sessionVars, outerVars>>

\* if needs_refinement: refined_sql, ... = await refine_sql(...);
\* result, _ = await self._execute_query(session, refined_sql, retry=False)
RefineOnce ==
    /\ req.pc = "refine"
    /\ LET ref == refine_sql(api_provider, req.sql_query, req.result, refineReply)
           asked == [Step(req, "refine_sql") EXCEPT
                       !.refineCalls = @ + 1, !.refineModelCalls = ref.modelCalls]
       IN  IF ref.kind = "raise"
           THEN req' = Finish(asked, CallbackRaise(req.operation, Raised(ref.exc, ref.msg)))
           ELSE LET ran == execute_query(dbOutcomes[2], FALSE)
                    logged == [Step(asked, "query_database") EXCEPT
                                 !.executions = Append(@, [sql |-> ref.sql, retry |-> FALSE])]
                IN  req' = IF ran.kind = "raise"
                           THEN Finish(logged, CallbackRaise(req.operation, ran))
                           ELSE [logged EXCEPT !.pc = "respond", !.sql_query = ref.sql,
                                               !.result = ran.value]
    /\ UNCHANGED <<api_provider, dbOutcomes, refineReply>>
    /\ UNCHANGED <<chainVars, schemaVars, registryVars, historyVars, samplingVars, sessionVars, outerVars>>

\* return QueryResponse(sql=..., result=..., explanation=..., thought_process=...,
\* metabase_question=...)
Respond ==
    /\ req.pc = "respond"
    /\ LET built == QueryResponse({"sql", "result", "explanation", "thought_process",
                                   "metabase_question"},
                                  [sql |-> req.sql_query, result |-> req.result])
       IN  req' = Finish(req, IF built.kind = "raise"
                              THEN CallbackRaise(req.operation, built)
                              ELSE built)
    /\ UNCHANGED <<api_provider, dbOutcomes, refineReply>>
    /\ UNCHANGED <<chainVars, schemaVars, registryVars, historyVars, samplingVars, sessionVars, outerVars>>

\* the exit of "async with self.create_session(...)": the contexts close, and an
\* exception of the block is caught by create_session's except clause and by the
\* caller's
ReleaseSession ==
    /\ req.pc = "release"
    /\ LET left == Step(ExitSession(req), "release") IN
       req' = [left EXCEPT
                 !.pc = "done",
                 !.outcome = IF req.pending.kind = "raise"
                             THEN CallerRaise(req.operation, CreateSessionRaise(req.pending))
                             ELSE req.pending]
    /\ UNCHANGED <<api_provider, dbOutcomes, refineReply>>
    /\ UNCHANGED <<chainVars, schemaVars, registryVars, historyVars, samplingVars, sessionVars, outerVars>>

\* What the provider can answer to the refinement prompt
RefineReplies ==
    { Reply(<< Text("{sql: SELECT month FROM orders, explanation: fixed the column, thought_process: []}") >>),
      Reply(<< Text("I cannot fix this query") >>),
      Reply(<< >>),
      Reply(<< ToolUse("call_1", "create_chart", "sql=q1") >>),
      ApiFailure }

----------------------------------------------------------------------------
(* Python values of the schema code: dicts, str methods, JSON texts *)

\* a dict keeps its keys in insertion order; {} is the dict without keys
EmptyDict == [keys |-> << >>, at |-> << >>]

\* d[k] = v
DictSet(d, k, v) ==
    IF \E i \in DOMAIN d.keys : d.keys[i] = k
    THEN [d EXCEPT !.at = [x \in DOMAIN d.at |-> IF x = k THEN v ELSE d.at[x]]]
    ELSE [keys |-> Append(d.keys, k),
          at |-> [x \in (DOMAIN d.at) \cup {k} |-> IF x = k THEN v ELSE d.at[x]]]

\* k in d
InDict(k, d) == \E i \in DOMAIN d.keys : d.keys[i] = k

\* if d: a dict is true when it has a key
DictTruthy(d) == d.keys # << >>

UpperLetters == "ABCDEFGHIJKLMNOPQRSTUVWXYZ"

LowerLetters == "abcdefghijklmnopqrstuvwxyz"

\* the letter of alphabet `to` at the place c has in alphabet `from`, else c
MapChar(c, from, to) ==
    IF \E i \in 1..Len(from) : CharAt(from, i) = c
    THEN CharAt(to, CHOOSE i \in 1..Len(from) : CharAt(from, i) = c)
    ELSE c

\* str.lower()
RECURSIVE Lower(_)
Lower(s) ==
    IF s = "" THEN ""
    ELSE MapChar(CharAt(s, 1), UpperLetters, LowerLetters) \o Lower(SubSeq(s, 2, Len(s)))

\* str.upper()
RECURSIVE Upper(_)
Upper(s) ==
    IF s = "" THEN ""
    ELSE MapChar(CharAt(s, 1), LowerLetters, UpperLetters) \o Upper(SubSeq(s, 2, Len(s)))

\* s.replace(old, new): every occurrence, left to right
RECURSIVE Replace(_, _, _)
Replace(s, old, new) ==
    IF s = "" THEN ""
    ELSE IF StartsWith(s, old)
    THEN new \o Replace(SubSeq(s, Len(old) + 1, Len(s)), old, new)
    ELSE CharAt(s, 1) \o Replace(SubSeq(s, 2, Len(s)), old, new)

\* one row of DESCRIBE: the column's name and its key role
Column(field, key) == [Field |-> field, Key |-> key]

\* the tables of the database behind the tool server
TableNames == {"customers", "orders"}

\* DESCRIBE <table> of that database
TableColumns(table) ==
    IF table = "customers"
    THEN << Column("customers_id", "PRI"), Column("name", "") >>
    ELSE << Column("id", "PRI"), Column("customers_id", "mul"),
            Column("customer_ids", ""), Column("status", "MUL") >>

\* the rows another tool server sends for a table: valid JSON whose column
\* descriptors have no "Field" entry
UnnamedColumns == << [column_name |-> "id", Key |-> ""] >>

\* the structures json.loads can yield for a describe_table answer
ColumnLists == { TableColumns(table) : table \in TableNames } \cup { UnnamedColumns }

\* column.get('Field', '')
FieldOf(column) == IF "Field" \in DOMAIN column THEN column.Field ELSE ""

\* what list_tables may report, in its order
TableLists == { << >>, << "orders" >>, << "customers", "orders" >> }

RECURSIVE JoinNames(_, _)
JoinNames(names, i) ==
    IF i > Len(names) THEN ""
    ELSE names[i] \o (IF i < Len(names) THEN ", " ELSE "") \o JoinNames(names, i + 1)

\* json.dumps of a list of table names
DumpNames(names) == "[" \o JoinNames(names, 1) \o "]"

RECURSIVE JoinColumns(_, _)
JoinColumns(columns, i) ==
    IF i > Len(columns) THEN ""
    ELSE (IF "Field" \in DOMAIN columns[i]
          THEN "{Field: " \o columns[i].Field
          ELSE "{column_name: " \o columns[i].column_name)
         \o ", Key: " \o columns[i].Key \o "}"
         \o (IF i < Len(columns) THEN ", " ELSE "") \o JoinColumns(columns, i + 1)

\* json.dumps of the rows of DESCRIBE
DumpColumns(columns) == "[" \o JoinColumns(columns, 1) \o "]"

\* a text that json.loads rejects (what the tool server sends for an error)
ErrorText == "Error: (2006, MySQL server has gone away)"

\* json.loads(tables_text) succeeds: the text is the dump of a list of names
IsNamesText(text) == \E names \in TableLists : DumpNames(names) = text

\* json.loads(tables_text)
LoadNames(text) == CHOOSE names \in TableLists : DumpNames(names) = text

\* json.loads(struct_text) succeeds: the text is the dump of a table's rows
IsColumnsText(text) == \E columns \in ColumnLists : DumpColumns(columns) = text

\* json.loads(struct_text)
LoadColumns(text) == CHOOSE columns \in ColumnLists : DumpColumns(columns) = text

\* a content block that is not a TextContent
NotTextContent == [hasText |-> FALSE, text |-> NoneVal]

\* session.call_tool raises
CallRaises == [raised |-> TRUE, content |-> << >>]

\* the answers of session.call_tool("list_tables", {})
ListTablesOutcomes ==
    { ToolResult(<< TextContent(DumpNames(names)) >>) : names \in TableLists }
    \cup { ToolResult(<< >>), ToolResult(<< NotTextContent >>),
           ToolResult(<< TextContent(ErrorText) >>), CallRaises }

\* the answers of session.call_tool("describe_table", {"table_name": table})
DescribeTableOutcomes(table) ==
    { ToolResult(<< TextContent(DumpColumns(TableColumns(table))) >>),
      ToolResult(<< TextContent(DumpColumns(UnnamedColumns)) >>),
      ToolResult(<< >>), ToolResult(<< NotTextContent >>),
      ToolResult(<< TextContent(ErrorText) >>), CallRaises }

\* a resource of the tool server with the answer of read_resource for it
Resource(uri, result) == [uri |-> uri, result |-> result]

\* the answers of session.list_resources() (with those of read_resource)
ResourceListings ==
    { [raised |-> TRUE, resources |-> << >>],
      [raised |-> FALSE, resources |-> << >>],
      [raised |-> FALSE,
       resources |-> << Resource("mysql://shop/customers",
                          ToolResult(<< TextContent(DumpColumns(TableColumns("customers"))) >>)) >>] }

----------------------------------------------------------------------------
(* SchemaService *)

Relationship(from_table, to_table, from_column) ==
    [from_table |-> from_table, to_table |-> to_table, type |-> "foreign_key",
     from_column |-> from_column, to_column |-> "id"]

\* a relationship inference that records the stripped name whether or not a table
\* of that name is known
RECURSIVE ColumnRelationshipsUnchecked(_, _, _, _)
ColumnRelationshipsUnchecked(schema, table_name, table_data, j) ==
    IF j > Len(table_data) THEN << >>
    ELSE LET column == table_data[j]
             possible_table == Replace(column.Field, "_id", "")
         IN  (IF Upper(column.Key) = "MUL" \/ Contains(Lower(FieldOf(column)), "_id")
              THEN << Relationship(table_name, possible_table, column.Field) >>
              ELSE << >>)
             \o ColumnRelationshipsUnchecked(schema, table_name, table_data, j + 1)

\* for column in table_data: the relationships of one table's columns
RECURSIVE ColumnRelationships(_, _, _, _)
ColumnRelationships(schema, table_name, table_data, j) ==
    IF j > Len(table_data) THEN << >>
    ELSE LET column == table_data[j]
             possible_table == Replace(column.Field, "_id", "")
         IN  (IF (Upper(column.Key) = "MUL" \/ Contains(Lower(FieldOf(column)), "_id"))
                 /\ InDict(possible_table, schema)
              THEN << Relationship(table_name, possible_table, column.Field) >>
              ELSE << >>)
             \o ColumnRelationships(schema, table_name, table_data, j + 1)

\* for table_name, table_data in schema.items()
RECURSIVE TableRelationships(_, _)
TableRelationships(schema, i) ==
    IF i > Len(schema.keys) THEN << >>
    ELSE ColumnRelationships(schema, schema.keys[i], schema.at[schema.keys[i]], 1)
         \o TableRelationships(schema, i + 1)

\* _infer_relationships(schema)
infer_relationships(schema) == TableRelationships(schema, 1)

\* {"tables": schema, "relationships": self._infer_relationships(schema)}
Snapshot(schema) ==
    DictSet(DictSet(EmptyDict, "tables", schema),
            "relationships", infer_relationships(schema))

\* schema.get("tables", {})
TablesOf(snapshot) == IF InDict("tables", snapshot) THEN snapshot.at.tables ELSE EmptyDict

\* for table_name, table_data in schema.get("tables", {}).items():
\*     self.column_cache[table_name] = {col["Field"] for col in table_data}
\* col["Field"] raises KeyError for a descriptor without that entry; the tables
\* before it are in column_cache by then
RECURSIVE CacheColumns(_, _, _)
CacheColumns(tables, i, column_cache) ==
    IF i > Len(tables.keys) THEN [raised |-> FALSE, column_cache |-> column_cache]
    ELSE LET table_name == tables.keys[i]
             table_data == tables.at[table_name]
         IN  IF \E j \in DOMAIN table_data : "Field" \notin DOMAIN table_data[j]
             THEN [raised |-> TRUE, column_cache |-> column_cache]
             ELSE CacheColumns(tables, i + 1,
                    [x \in (DOMAIN column_cache) \cup {table_name} |->
                        IF x = table_name
                        THEN { table_data[j].Field : j \in DOMAIN table_data }
                        ELSE column_cache[x]])

\* _cache_column_names(schema): self.column_cache = {}, then the loop; table name ->
\* the set of its column names
cache_column_names(snapshot) ==
    CacheColumns(TablesOf(snapshot), 1, EmptyDict.at)

\* next((content.text for content in result.content
\*       if isinstance(content, types.TextContent)), None)
TextOf(result) == FirstText(result.content, 1)

\* _get_schema_from_tools up to the for loop: the table names, or SchemaError
TablesListed(result) ==
    IF result.raised THEN Raised("Exception", "call_tool failed")
    ELSE IF result.content = << >> THEN Raised("SchemaError", "Failed to get tables list")
    ELSE IF Falsy(TextOf(result))
    THEN Raised("SchemaError", "No text content in tables result")
    ELSE IF ~IsNamesText(TextOf(result))
    THEN Raised("SchemaError", "Failed to parse tables JSON")
    ELSE Returned(LoadNames(TextOf(result)))

\* a describe_table answer that yields the table's structure
DescribeSucceeds(result) ==
    /\ ~result.raised
    /\ result.content # << >>
    /\ ~Falsy(TextOf(result))
    /\ IsColumnsText(TextOf(result))

\* a loop body that records a table whose structure could not be retrieved
DescribeStepKeepsFailed(schema, table, result) ==
    IF DescribeSucceeds(result)
    THEN DictSet(schema, table, LoadColumns(TextOf(result)))
    ELSE DictSet(schema, table, << >>)

\* one pass of "for table in tables": schema[table] = json.loads(struct_text), or
\* continue when the call raises, has no content, no text, or unparsable text
DescribeStep(schema, table, result) ==
    IF result.raised THEN schema
    ELSE IF result.content = << >> THEN schema
    ELSE IF Falsy(TextOf(result)) THEN schema
    ELSE IF ~IsColumnsText(TextOf(result)) THEN schema
    ELSE DictSet(schema, table, LoadColumns(TextOf(result)))

\* resource.uri.split('/')[-1]
RECURSIVE LastSegment(_)
LastSegment(uri) ==
    IF ~Contains(uri, "/") THEN uri
    ELSE LastSegment(SubSeq(uri, 2, Len(uri)))

\* for resource in resources: of _get_schema_from_resources
RECURSIVE ReadResources(_, _, _)
ReadResources(resources, i, schema) ==
    IF i > Len(resources) THEN schema
    ELSE LET resource == resources[i]
             content_result == resource.result
         IN  IF Falsy(resource.uri) THEN ReadResources(resources, i + 1, schema)
             ELSE IF content_result.content = << >>
             THEN ReadResources(resources, i + 1, schema)
             ELSE IF Falsy(TextOf(content_result))
             THEN ReadResources(resources, i + 1, schema)
             ELSE IF ~IsColumnsText(TextOf(content_result))
             THEN ReadResources(resources, i + 1, schema)
             ELSE ReadResources(resources, i + 1,
                     DictSet(schema, LastSegment(resource.uri),
                             LoadColumns(TextOf(content_result))))

\* _get_schema_from_resources(session)
get_schema_from_resources(listing) ==
    IF listing.raised \/ \E i \in DOMAIN listing.resources : listing.resources[i].result.raised
    THEN Raised("SchemaError", "Failed to get schema from resources")
    ELSE Returned(Snapshot(ReadResources(listing.resources, 1, EmptyDict)))

\* get_schema: except Exception as e: raise SchemaError("Failed to fetch schema: ...")
GetSchemaRaise(e) == Raised("SchemaError", "Failed to fetch schema: " \o e.msg)

\* the requests that share the SchemaService of one cached query service
Requests == {"r1", "r2"}

\* SchemaService.__init__, with the number of assignments to schema_cache and the
\* first snapshot assigned
NewSchemaService ==
    [schema_cache |-> EmptyDict, column_cache |-> EmptyDict.at,
     writes |-> 0, first |-> EmptyDict]

\* a request before its get_schema call; made counts its calls so far, listing is
\* what the session would answer to list_resources during the call
IdleSchemaCall(made) ==
    [pc |-> "idle", made |-> made, hit |-> FALSE, sessionCalls |-> 0,
     listing |-> [raised |-> FALSE, resources |-> << >>],
     listed |-> FALSE, pending |-> << >>, schema |-> EmptyDict, log |-> << >>,
     resourceCalls |-> 0, result |-> NoOutcome]

\* self._cache_column_names(schema); self.schema_cache = schema (not reached when
\* _cache_column_names raises)
CacheSchema(service, snapshot) ==
    LET cached == cache_column_names(snapshot) IN
    IF cached.raised
    THEN [service EXCEPT !.column_cache = cached.column_cache]
    ELSE [service EXCEPT !.column_cache = cached.column_cache,
                         !.schema_cache = snapshot,
                         !.writes = @ + 1,
                         !.first = IF service.writes = 0 THEN snapshot ELSE @]

\* cache the snapshot and return it; a KeyError of _cache_column_names is raised as
\* SchemaError by get_schema's except clause
CacheAndReturn(service, call, snapshot) ==
    [service |-> CacheSchema(service, snapshot),
     call |-> [call EXCEPT
                 !.result = IF cache_column_names(snapshot).raised
                            THEN GetSchemaRaise(Raised("KeyError", "'Field'"))
                            ELSE Returned(snapshot)]]

\* get_schema after _get_schema_from_tools returned schema: cache and return it when
\* it is true, else fall back to the resources
GetSchemaTail(service, call, snapshot) ==
    IF DictTruthy(snapshot)
    THEN CacheAndReturn(service, [call EXCEPT !.pc = "done"], snapshot)
    ELSE LET fallback == get_schema_from_resources(call.listing)
             tried == [call EXCEPT !.pc = "done", !.resourceCalls = @ + 1]
         IN  IF fallback.kind = "raise"
             THEN [service |-> service,
                   call |-> [tried EXCEPT !.result = GetSchemaRaise(fallback)]]
             ELSE CacheAndReturn(service, tried, fallback.value)

\* get_schema(session) up to its first await: the cached snapshot when the cache is
\* true, else on to session.call_tool("list_tables", {})
BeginGetSchema(r) ==
    /\ schemaCalls[r].pc = "idle"
    /\ schemaCalls[r].made < MaxCalls
    /\ \E listing \in ResourceListings :
          schemaCalls' = [schemaCalls EXCEPT ![r] =
             IF DictTruthy(schema_service.schema_cache)
             THEN [@ EXCEPT !.pc = "done", !.made = @ + 1, !.hit = TRUE,
                            !.result = Returned(schema_service.schema_cache)]
             ELSE [@ EXCEPT !.pc = "list", !.made = @ + 1, !.listing = listing]]
    /\ UNCHANGED schema_service
    /\ UNCHANGED <<chainVars, queryVars, registryVars, historyVars, samplingVars, sessionVars, outerVars>>

\* list_tables answers: SchemaError, or the loop over the tables starts (and ends at
\* once for an empty list)
ListTablesCall(r) ==
    /\ schemaCalls[r].pc = "list"
    /\ \E result \in ListTablesOutcomes :
          LET called == [schemaCalls[r] EXCEPT !.sessionCalls = @ + 1]
              listed == TablesListed(result)
          IN  IF listed.kind = "raise"
              THEN /\ schemaCalls' = [schemaCalls EXCEPT ![r] =
                         [called EXCEPT !.pc = "done",
                                        !.result = GetSchemaRaise(listed)]]
                   /\ UNCHANGED schema_service
              ELSE IF listed.value = << >>
              THEN LET done == GetSchemaTail(schema_service,
                                             [called EXCEPT !.listed = TRUE],
                                             Snapshot(EmptyDict))
                   IN  /\ schemaCalls' = [schemaCalls EXCEPT ![r] = done.call]
                       /\ schema_service' = done.service
              ELSE /\ schemaCalls' = [schemaCalls EXCEPT ![r] =
                         [called EXCEPT !.pc = "describe", !.listed = TRUE,
                                        !.pending = listed.value]]
                   /\ UNCHANGED schema_service
    /\ UNCHANGED <<chainVars, queryVars, registryVars, historyVars, samplingVars, sessionVars, outerVars>>

\* describe_table answers for the next table; after the last table the snapshot is
\* built, cached and returned without another await
DescribeTableCall(r) ==
    /\ schemaCalls[r].pc = "describe"
    /\ \E result \in DescribeTableOutcomes(Head(schemaCalls[r].pending)) :
          LET table == Head(schemaCalls[r].pending)
              stepped == [schemaCalls[r] EXCEPT
                            !.sessionCalls = @ + 1,
                            !.pending = Tail(@),
                            !.schema = DescribeStep(@, table, result),
                            !.log = Append(@, IF DescribeSucceeds(result)
                                              THEN table ELSE "failed")]
          IN  IF stepped.pending # << >>
              THEN /\ schemaCalls' = [schemaCalls EXCEPT ![r] = stepped]
                   /\ UNCHANGED schema_service
              ELSE LET done == GetSchemaTail(schema_service, stepped,
                                             Snapshot(stepped.schema))
                   IN  /\ schemaCalls' = [schemaCalls EXCEPT ![r] = done.call]
                       /\ schema_service' = done.service
    /\ UNCHANGED <<chainVars, queryVars, registryVars, historyVars, samplingVars, sessionVars, outerVars>>

\* the request is over; a later request takes its place
NextSchemaCall(r) ==
    /\ schemaCalls[r].pc = "done"
    /\ schemaCalls[r].made < MaxCalls
    /\ schemaCalls' = [schemaCalls EXCEPT ![r] = IdleSchemaCall(@.made)]
    /\ UNCHANGED schema_service
    /\ UNCHANGED <<chainVars, queryVars, registryVars, historyVars, samplingVars, sessionVars, outerVars>>

----------------------------------------------------------------------------
(* The registry of query services (dependencies.get_query_service) and the   *)
(* requests that run SamplingService.process_query on the service they got   *)

\* the HTTP requests in flight
Clients == {"c1", "c2"}

\* the server_name query parameter
ServerNames == {"mysql", "analytics"}

\* the replies the provider gives to these requests
TraceReplies ==
    { Reply(<< >>),
      Reply(<< Text("Sales by month") >>),
      Reply(<< ToolUse("call_1", "create_chart", "sql=q1") >>),
      Reply(<< ToolUse("call_3", "list_tables", "") >>) }

\* QueryService(MCP_CONFIG_PATH): a new query service, whose sampling service owns
\* one backend instance with its last_raw_response
NewQueryService(server_name) == [server_name |-> server_name, last_raw_response |-> << >>]

\* a request before its dependencies are resolved; service 0 is no service yet
IdleClient(server_name) ==
    [pc |-> "request", server_name |-> server_name, missing |-> FALSE, service |-> 0,
     chain |-> IdleChain, own |-> << >>, response |-> NoOutcome]

\* a response that is built from whatever process_chain left, failed or not
SamplingResponseAlways(result, last_raw_response) ==
    Returned([explanation |-> Or(result.explanation, DefaultExplanation),
              tool_calls |-> result.tool_calls,
              raw_llm_response |-> last_raw_response])

\* QueryResponse(explanation=..., tool_calls=..., raw_llm_response=last_raw_response)
\* of SamplingService.process_query; any exception becomes SamplingError
SamplingResponse(result, last_raw_response) ==
    IF result.kind = "raise"
    THEN Raised("SamplingError", "Failed to process query: " \o result.msg)
    ELSE IF result.explanation = NoneVal
    THEN Raised("SamplingError", "Failed to process query: explanation is not a string")
    ELSE Returned([explanation |-> result.explanation,
                   tool_calls |-> result.tool_calls,
                   raw_llm_response |-> last_raw_response])

\* if server_name not in _query_services
TestRegistry(c) ==
    /\ clients[c].pc = "request"
    /\ LET missing == clients[c].server_name \notin DOMAIN query_services IN
       clients' = [clients EXCEPT ![c] =
                     [@ EXCEPT !.missing = missing,
                               !.pc = IF missing THEN "construct" ELSE "return"]]
    /\ UNCHANGED <<query_services, services, api_provider, toolOutcome>>
    /\ UNCHANGED <<responses, maxIterations, serverTools, chain, dbOutcomes, refineReply, req>>
    /\ UNCHANGED <<schemaVars, historyVars, samplingVars, sessionVars, outerVars>>

\* _query_services[server_name] = QueryService(MCP_CONFIG_PATH)
ConstructService(c) ==
    /\ clients[c].pc = "construct"
    /\ services' = Append(services, NewQueryService(clients[c].server_name))
    /\ query_services' =
          [name \in (DOMAIN query_services) \cup {clients[c].server_name} |->
              IF name = clients[c].server_name THEN Len(services) + 1
              ELSE query_services[name]]
    /\ clients' = [clients EXCEPT ![c] = [@ EXCEPT !.pc = "return"]]
    /\ UNCHANGED <<api_provider, toolOutcome>>
    /\ UNCHANGED <<responses, maxIterations, serverTools, chain, dbOutcomes, refineReply, req>>
    /\ UNCHANGED <<schemaVars, historyVars, samplingVars, sessionVars, outerVars>>

\* return _query_services[server_name]
ReturnService(c) ==
    /\ clients[c].pc = "return"
    /\ clients' = [clients EXCEPT ![c] =
                     [@ EXCEPT !.service = query_services[clients[c].server_name],
                               !.pc = "process"]]
    /\ UNCHANGED <<query_services, services, api_provider, toolOutcome>>
    /\ UNCHANGED <<responses, maxIterations, serverTools, chain, dbOutcomes, refineReply, req>>
    /\ UNCHANGED <<schemaVars, historyVars, samplingVars, sessionVars, outerVars>>

\* the request enters process_chain of its service's backend: the trace is reset
StartProcess(c) ==
    /\ clients[c].pc = "process"
    /\ LET started == ChainStart(api_provider, clients[c].chain, InitialMessages,
                                 DefaultMaxIterations(api_provider))
       IN  /\ clients' = [clients EXCEPT ![c] =
                            [@ EXCEPT !.pc = "loop", !.own = << >>,
                                      !.chain = [started EXCEPT !.last_raw_response = << >>]]]
           /\ services' = [services EXCEPT ![clients[c].service] =
                             [@ EXCEPT !.last_raw_response = started.last_raw_response]]
    /\ UNCHANGED <<query_services, api_provider, toolOutcome>>
    /\ UNCHANGED <<responses, maxIterations, serverTools, chain, dbOutcomes, refineReply, req>>
    /\ UNCHANGED <<schemaVars, historyVars, samplingVars, sessionVars, outerVars>>

\* one pass of the loop on the backend's trace; when process_chain ends, the
\* response is built from the trace the backend holds at that moment
ProcessRound(c) ==
    /\ clients[c].pc = "loop"
    /\ \E response \in TraceReplies :
          LET service == services[clients[c].service]
              max_iterations == DefaultMaxIterations(api_provider)
              shared == ChainRound(api_provider,
                           [clients[c].chain EXCEPT
                               !.last_raw_response = service.last_raw_response],
                           response, max_iterations)
              alone == ChainRound(api_provider,
                           [clients[c].chain EXCEPT !.last_raw_response = clients[c].own],
                           response, max_iterations)
          IN  /\ services' = [services EXCEPT ![clients[c].service] =
                                [@ EXCEPT !.last_raw_response = shared.last_raw_response]]
              /\ clients' = [clients EXCEPT ![c] =
                    [@ EXCEPT !.chain = [shared EXCEPT !.last_raw_response = << >>],
                              !.own = alone.last_raw_response,
                              !.pc = IF shared.pc = "done" THEN "done" ELSE "loop",
                              !.response =
                                 IF shared.pc = "done"
                                 THEN SamplingResponse(shared.result,
                                                       shared.last_raw_response)
                                 ELSE NoOutcome]]
    /\ UNCHANGED <<query_services, api_provider, toolOutcome>>
    /\ UNCHANGED <<responses, maxIterations, serverTools, chain, dbOutcomes, refineReply, req>>
    /\ UNCHANGED <<schemaVars, historyVars, samplingVars, sessionVars, outerVars>>

----------------------------------------------------------------------------
(* Conversation history: ToolCallLog, MessageWithToolHistory and             *)
(* SamplingService._format_messages                                          *)

\* one <tool_call> element: its attributes and the texts of <logs> and <result>
ToolCallElement(type, status, timestamp, logs, result) ==
    [type |-> type, status |-> status, timestamp |-> timestamp,
     logs |-> logs, result |-> result]

CreateChartElement ==
    ToolCallElement("create_chart", "success", "2025-01-01T10:00:00Z",
                    "[created]", "{result: {card_id: 7}}")

ListChartsElement ==
    ToolCallElement("list_charts", "success", "2025-01-01T10:00:05Z",
                    "[]", "{charts: 2}")

UndatedElement ==
    ToolCallElement("create_chart", "success", "yesterday",
                    "[created]", "{result: {card_id: 7}}")

\* a call as it was recorded when it ran: the element's fields and the id generated then
RecordedChartCall == [id |-> "call-7f3a"] @@ CreateChartElement

\* the element lists a well-formed tool-call log can hold
ElementLists ==
    { << >>, << CreateChartElement >>, << CreateChartElement, ListChartsElement >>,
      << UndatedElement >>, << RecordedChartCall >> }

RECURSIVE XmlElements(_, _)
XmlElements(elements, i) ==
    IF i > Len(elements) THEN ""
    ELSE "<tool_call"
         \o (IF "id" \in DOMAIN elements[i] THEN " id=" \o elements[i].id ELSE "")
         \o " type=" \o elements[i].type \o " status=" \o elements[i].status
         \o " timestamp=" \o elements[i].timestamp \o ">"
         \o "<logs>" \o elements[i].logs \o "</logs>"
         \o "<result>" \o elements[i].result \o "</result></tool_call>"
         \o XmlElements(elements, i + 1)

\* the text of a tool-call log: <tool_call> elements under one root
XmlText(elements) == "<tool_calls>" \o XmlElements(elements, 1) \o "</tool_calls>"

\* a log cut off in the middle, which ET.fromstring rejects
TruncatedXml == "<tool_calls><tool_call type=create_chart status=succ"

\* the tagged-text form of recorded calls: one element per call, carrying every field
to_xml_string(calls) == XmlText(calls)

\* ET.fromstring(xml_string) succeeds
IsXml(xml_string) == \E elements \in ElementLists : XmlText(elements) = xml_string

\* root.findall('.//tool_call')
FindAll(xml_string) == CHOOSE elements \in ElementLists : XmlText(elements) = xml_string

\* datetime.fromisoformat(timestamp.replace('Z', '+00:00')) succeeds
IsIsoTimestamp(timestamp) ==
    LET text == Replace(timestamp, "Z", "+00:00") IN
    /\ Len(text) >= 19
    /\ CharAt(text, 5) = "-" /\ CharAt(text, 8) = "-" /\ CharAt(text, 11) = "T"
    /\ CharAt(text, 14) = ":" /\ CharAt(text, 17) = ":"

\* json.loads(logs_elem.text) yields a list
IsJsonList(text) == Len(text) >= 2 /\ CharAt(text, 1) = "[" /\ CharAt(text, Len(text)) = "]"

\* cls(type=..., status=..., timestamp=..., logs=..., result=..., id=str(uuid4())):
\* the id is fresh; here the element's place in its log
ToolCallLog(element, i) ==
    [type |-> element.type, status |-> element.status, timestamp |-> element.timestamp,
     logs |-> element.logs, result |-> element.result,
     id |-> "uuid-" \o ToString(i)]

\* ToolCallLog.from_xml_string: the calls of the log, or ValueError
from_xml_string(xml_string) ==
    IF ~IsXml(xml_string)
    THEN Raised("ValueError", "Failed to parse tool call XML")
    ELSE LET elements == FindAll(xml_string) IN
         IF \E i \in DOMAIN elements :
               \/ ~IsJsonList(elements[i].logs)
               \/ ~IsJsonText(elements[i].result)
               \/ ~IsIsoTimestamp(elements[i].timestamp)
         THEN Raised("ValueError", "Failed to parse tool call XML")
         ELSE Returned([i \in DOMAIN elements |-> ToolCallLog(elements[i], i)])

\* ToolCallLog.to_assistant_message
to_assistant_message(call) ==
    [role |-> "assistant", content |-> "",
     tool_calls |-> << [id |-> call.id, type |-> "function",
                        name |-> call.type,
                        arguments |-> JsonDumps("params: "
                            \o (IF HasKey(call.result, "result")
                                THEN ValueOf(call.result, "result") ELSE "{}"))] >>]

\* ToolCallLog.to_tool_message
to_tool_message(call) ==
    [role |-> "tool",
     content |-> JsonDumps("status: " \o call.status \o ", logs: " \o call.logs
                           \o ", result: " \o call.result),
     tool_call_id |-> call.id]

\* MessageWithToolHistory(content, role, tool_calls, raw_llm_response); an absent
\* raw_llm_response is the empty list
MessageWithToolHistory(role, content, tool_calls, raw_llm_response) ==
    [role |-> role, content |-> content, tool_calls |-> tool_calls,
     raw_llm_response |-> raw_llm_response]

\* [r.get("text") for r in raw_llm_response if r.get("type") == "text" and r.get("text")]
JsonResponses(raw_llm_response) ==
    SelectSeq(raw_llm_response, LAMBDA r : r.type = "text" /\ ~Falsy(r.text))

\* for call in tool_calls: the assistant message and the tool message of each call
RECURSIVE CallMessages(_, _)
CallMessages(calls, i) ==
    IF i > Len(calls) THEN << >>
    ELSE << to_assistant_message(calls[i]), to_tool_message(calls[i]) >>
         \o CallMessages(calls, i + 1)

\* MessageWithToolHistory.get_messages
get_messages(msg) ==
    LET json_responses == JsonResponses(msg.raw_llm_response)
        content == IF json_responses # << >>
                   THEN json_responses[Len(json_responses)].text
                   ELSE msg.content
        base == << [role |-> msg.role, content |-> content] >>
    IN  IF Falsy(msg.tool_calls) THEN Returned(base)
        ELSE LET tool_calls == from_xml_string(msg.tool_calls) IN
             IF tool_calls.kind = "raise"
             THEN Raised("ValueError", "Invalid tool calls format: " \o tool_calls.msg)
             ELSE Returned(base \o CallMessages(tool_calls.value, 1))

\* for msg in message_history: of _format_messages
RECURSIVE HistoryMessages(_, _)
HistoryMessages(history, i) ==
    IF i > Len(history) THEN << >>
    ELSE LET msg == history[i]
             msg_list == get_messages(msg)
         IN  (IF msg_list.kind = "raise"
              THEN << [role |-> msg.role, content |-> msg.content] >>
              ELSE msg_list.value)
             \o HistoryMessages(history, i + 1)

\* SamplingService._format_messages(system_prompt, question, message_history)
format_messages(system_prompt, question, history) ==
    Returned(<< [role |-> "developer", content |-> system_prompt] >>
             \o HistoryMessages(history, 1)
             \o << [role |-> "user", content |-> question] >>)

\* the turns a client can send as history
HistoryTurns ==
    { MessageWithToolHistory("user", "show sales", NoneVal, << >>),
      MessageWithToolHistory("assistant", "Here is the chart", NoneVal, << >>),
      MessageWithToolHistory("assistant", "Here is the chart", NoneVal,
          << RawLLMContent("text", "{explanation: chart}", NoneVal, NoneVal, NoneVal) >>),
      MessageWithToolHistory("assistant", "Created", XmlText(<< CreateChartElement >>), << >>),
      MessageWithToolHistory("assistant", "Created and listed",
          XmlText(<< CreateChartElement, ListChartsElement >>), << >>),
      MessageWithToolHistory("assistant", "Recorded", to_xml_string(<< RecordedChartCall >>), << >>),
      MessageWithToolHistory("assistant", "Cut off", TruncatedXml, << >>),
      MessageWithToolHistory("assistant", "Undated", XmlText(<< UndatedElement >>), << >>) }

SystemPrompt == "You are a data visualization expert"

Question == "total sales by month"

\* the request's messages are built from its history
FormatMessages ==
    /\ formatted = NoOutcome
    /\ formatted' = format_messages(SystemPrompt, Question, message_history)
    /\ UNCHANGED message_history
    /\ UNCHANGED <<chainVars, queryVars, schemaVars, registryVars, samplingVars, sessionVars, outerVars>>

----------------------------------------------------------------------------
(* SamplingService.process_query: the tool-based request, one request after  *)
(* the other on one service and its backend instance                         *)

\* NLQuery.type
QueryTypes == {"chart", "dashboard"}

\* a dashboard prompt that disables no tool
construct_system_prompt_none_disabled(type) ==
    IF type = "chart"
    THEN [calls |-> {"preview_chart"},
          disabled |-> {"create_chart", "rearrange_dashboard", "add_markdown"}]
    ELSE [calls |-> {"create_chart", "rearrange_dashboard", "add_markdown"},
          disabled |-> {}]

\* _construct_system_prompt(type, ...): the tools the prompt tells the model to call
\* and the tools it lists under "Disabled tools:"
construct_system_prompt(type) ==
    IF type = "chart"
    THEN [calls |-> {"preview_chart"},
          disabled |-> {"create_chart", "rearrange_dashboard", "add_markdown"}]
    ELSE [calls |-> {"create_chart", "rearrange_dashboard", "add_markdown"},
          disabled |-> {"preview_chart"}]

\* what session.list_tools() answers: the tools a server advertises (those of
\* mysql_mcp, or a server with a list_charts tool of its own), or the call raises
ToolListings ==
    { [raised |-> FALSE, tools |-> << "query_database", "list_tables", "describe_table" >>],
      [raised |-> FALSE, tools |-> << "query_database", "list_tables", "list_charts" >>],
      [raised |-> TRUE, tools |-> << >>] }

\* all_tools = self.tools + tools
AllTools(given) == tools \o given

\* the replies the provider gives to these requests
SamplingReplies ==
    TraceReplies \cup { Reply(<< ToolUse("call_6", "preview_chart", "sql=q1") >>),
                        ApiFailure }

\* a request handed to process_query; the backend instance keeps its trace. own holds
\* the fragments recorded during the latest process_chain call, before the trace the
\* backend held when that call began
NewSampling(type, listing, made, last_raw_response, own) ==
    [pc |-> "request", type |-> type, listing |-> listing, made |-> made,
     system_prompt |-> construct_system_prompt(type),
     tools |-> << >>, all_tools |-> << >>,
     chain |-> [IdleChain EXCEPT !.last_raw_response = last_raw_response],
     own |-> own, before |-> << >>, response |-> NoOutcome]

\* messages = self._format_messages(...); process_chain(session, messages, tools)
\* up to its first model call
EnterChain(s, given) ==
    LET messages == format_messages(SystemPrompt, Question, << >>).value
        started == ChainStart(api_provider, s.chain, messages,
                              DefaultMaxIterations(api_provider))
    IN  [s EXCEPT !.pc = "loop", !.tools = given, !.all_tools = AllTools(given),
                  !.chain = started, !.own = << >>,
                  !.before = s.chain.last_raw_response]

\* system prompt and messages; in chart mode the request waits for
\* session.list_tools(), otherwise mcp_tools = [] and the chain starts
BeginQuery ==
    /\ sampling.pc = "request"
    /\ sampling' = IF sampling.type = "chart"
                   THEN [sampling EXCEPT !.pc = "list_tools"]
                   ELSE EnterChain(sampling, << >>)
    /\ UNCHANGED <<chainVars, queryVars, schemaVars, registryVars, historyVars, sessionVars, outerVars>>

\* session.list_tools() answers; except Exception: raise SamplingError(...)
ListTools ==
    /\ sampling.pc = "list_tools"
    /\ sampling' =
          IF sampling.listing.raised
          THEN [sampling EXCEPT
                  !.pc = "done",
                  !.response = Raised("SamplingError",
                                      "Failed to process query: list_tools failed")]
          ELSE EnterChain(sampling, sampling.listing.tools)
    /\ UNCHANGED <<chainVars, queryVars, schemaVars, registryVars, historyVars, sessionVars, outerVars>>

\* one pass of the backend's loop; when process_chain ends, _parse_llm_response
\* and QueryResponse(...), or SamplingError
SamplingRound ==
    /\ sampling.pc = "loop"
    /\ \E response \in SamplingReplies :
          LET max_iterations == DefaultMaxIterations(api_provider)
              after == ChainRound(api_provider, sampling.chain, response, max_iterations)
              alone == ChainRound(api_provider,
                          [sampling.chain EXCEPT !.last_raw_response = sampling.own],
                          response, max_iterations)
              built == SamplingResponse(after.result, after.last_raw_response)
          IN  sampling' =
                 IF after.pc # "done"
                 THEN [sampling EXCEPT !.chain = after, !.own = alone.last_raw_response]
                 ELSE [sampling EXCEPT
                         !.pc = "done", !.chain = after, !.own = alone.last_raw_response,
                         !.response = built]
    /\ UNCHANGED <<chainVars, queryVars, schemaVars, registryVars, historyVars, sessionVars, outerVars>>

\* the next request reaches the same service
NextQuery ==
    /\ sampling.pc = "done"
    /\ sampling.made < MaxRequests
    /\ \E type \in QueryTypes, listing \in ToolListings :
          sampling' = NewSampling(type, listing, sampling.made + 1,
                                  sampling.chain.last_raw_response, sampling.own)
    /\ UNCHANGED <<chainVars, queryVars, schemaVars, registryVars, historyVars, sessionVars, outerVars>>

----------------------------------------------------------------------------
(* MCPSession: the wrapper around the ClientSession, used by the one task    *)
(* that owns it                                                              *)

\* the operations of MCPSession that go through _ensure_initialized
SessionOperations ==
    {"list_resources", "read_resource", "list_prompts", "get_prompt",
     "list_tools", "call_tool", "create_message"}

\* MCPSession(session): self.initialized = False; of the ClientSession under it, the
\* initialize() calls that reached it, those that succeeded, and the other calls
\* that reached it
NewSession ==
    [initialized |-> FALSE, pc |-> "idle",
     underlying |-> [attempts |-> 0, initialized |-> 0, calls |-> << >>],
     log |-> << >>]

\* one finished call of the owner: the operation and how it ended
Called(operation, outcome) == [op |-> operation, outcome |-> outcome]

\* a test that lets every initialize() through to the ClientSession
InitializeNeededAlways(s) == TRUE

\* if not self.initialized: of initialize
InitializeNeeded(s) == ~s.initialized

\* a check that lets every operation through
ensure_initialized_unchecked(s) == Returned(NoneVal)

\* _ensure_initialized
ensure_initialized(s) ==
    IF ~s.initialized THEN Raised("MCPError", "MCP session not initialized")
    ELSE Returned(NoneVal)

\* initialize() is called: it returns at once on an initialized session, otherwise
\* it awaits self.session.initialize()
Initialize ==
    /\ session.pc = "idle"
    /\ Len(session.log) < MaxOps
    /\ session' =
          IF InitializeNeeded(session)
          THEN [session EXCEPT !.pc = "initializing", !.underlying.attempts = @ + 1]
          ELSE [session EXCEPT
                  !.log = Append(@, Called("initialize", Returned(NoneVal)))]
    /\ UNCHANGED transport
    /\ UNCHANGED <<chainVars, queryVars, schemaVars, registryVars, historyVars, samplingVars, outerVars>>

\* self.session.initialize() returns and self.initialized = True, or it raises and
\* initialize raises MCPError
InitializeReturns ==
    /\ session.pc = "initializing"
    /\ \/ session' = [session EXCEPT
                        !.pc = "idle", !.initialized = TRUE,
                        !.underlying.initialized = @ + 1,
                        !.log = Append(@, Called("initialize", Returned(NoneVal)))]
       \/ session' = [session EXCEPT
                        !.pc = "idle",
                        !.log = Append(@, Called("initialize",
                                    Raised("MCPError", "Failed to initialize MCP session:  ")))]
    /\ UNCHANGED transport
    /\ UNCHANGED <<chainVars, queryVars, schemaVars, registryVars, historyVars, samplingVars, outerVars>>

\* await self._ensure_initialized(); return await self.session.<operation>(...):
\* the ClientSession answers, or its call raises
Operation(operation) ==
    /\ session.pc = "idle"
    /\ Len(session.log) < MaxOps
    /\ LET ensured == ensure_initialized(session) IN
       IF ensured.kind = "raise"
       THEN session' = [session EXCEPT !.log = Append(@, Called(operation, ensured))]
       ELSE \E outcome \in {Returned(operation), Raised("McpError", "request failed")} :
               session' = [session EXCEPT
                             !.underlying.calls = Append(@, operation),
                             !.log = Append(@, Called(operation, outcome))]
    /\ UNCHANGED transport
    /\ UNCHANGED <<chainVars, queryVars, schemaVars, registryVars, historyVars, samplingVars, outerVars>>

----------------------------------------------------------------------------
(* MCPTransport *)

\* the onclose callbacks a user can set: none, one that returns, one that raises
OnClose == {"none", "returns", "raises"}

\* MCPTransport(): self._is_closed = False; the callbacks the user set, and how
\* often each was called
NewTransport(onclose, onerror) ==
    [is_closed |-> FALSE, onclose |-> onclose, onerror |-> onerror,
     fired |-> 0, errors |-> 0, log |-> << >>]

\* a test that lets every close() through
CloseNeededAlways(tr) == TRUE

\* if not self._is_closed: of close
CloseNeeded(tr) == ~tr.is_closed

\* start(): logs and returns
Start ==
    /\ Len(transport.log) < MaxOps
    /\ transport' = [transport EXCEPT !.log = Append(@, Called("start", Returned(NoneVal)))]
    /\ UNCHANGED session
    /\ UNCHANGED <<chainVars, queryVars, schemaVars, registryVars, historyVars, samplingVars, outerVars>>

\* send(message): RuntimeError on a closed transport, otherwise it logs and returns
Send ==
    /\ Len(transport.log) < MaxOps
    /\ transport' =
          [transport EXCEPT
             !.log = Append(@, Called("send",
                        IF transport.is_closed
                        THEN Raised("RuntimeError", "Transport is closed")
                        ELSE Returned(NoneVal)))]
    /\ UNCHANGED session
    /\ UNCHANGED <<chainVars, queryVars, schemaVars, registryVars, historyVars, samplingVars, outerVars>>

\* close(): on an open transport self._is_closed = True and onclose is called; an
\* error of the callback goes to onerror and is re-raised
Close ==
    /\ Len(transport.log) < MaxOps
    /\ transport' =
          IF ~CloseNeeded(transport)
          THEN [transport EXCEPT !.log = Append(@, Called("close", Returned(NoneVal)))]
          ELSE CASE transport.onclose = "none" ->
                      [transport EXCEPT
                         !.is_closed = TRUE,
                         !.log = Append(@, Called("close", Returned(NoneVal)))]
                 [] transport.onclose = "returns" ->
                      [transport EXCEPT
                         !.is_closed = TRUE, !.fired = @ + 1,
                         !.log = Append(@, Called("close", Returned(NoneVal)))]
                 [] OTHER ->
                      [transport EXCEPT
                         !.is_closed = TRUE, !.fired = @ + 1,
                         !.errors = IF transport.onerror THEN @ + 1 ELSE @,
                         !.log = Append(@, Called("close",
                                    Raised("Exception", "onclose failed")))]
    /\ UNCHANGED session
    /\ UNCHANGED <<chainVars, queryVars, schemaVars, registryVars, historyVars, samplingVars, outerVars>>

----------------------------------------------------------------------------
(* BaseMCPClient.with_sessions *)

\* the names a caller can ask for: the configured servers and one that the
\* configuration does not hold
RequestedNames == ServerNames \cup {"unknown"}

\* the call with_sessions(server_names, callback) before its first step; opened
\* holds one entry per session create_session yielded, sessions is the dict built
\* by the loop (server name to the index of its session in opened)
NewManaged(server_names) ==
    [server_names |-> server_names, pc |-> "create", i |-> 1,
     opened |-> << >>, sessions |-> EmptyDict,
     passed |-> << >>, invoked |-> FALSE,
     outcome |-> NoOutcome]

\* with_sessions: except Exception as e: raise MCPError("Failed to create sessions: ...")
WithSessionsRaise(e) == Raised("MCPError", "Failed to create sessions: " \o e.msg)

\* the session made by "async with stdio_client(...)" and "async with
\* ClientSession(read, write)": connected, not yet initialized
ConnectedSession(server_name) ==
    [server_name |-> server_name, state |-> "open", initialized |-> FALSE]

\* for server_name in server_names: async with self.create_session(server_name)
\* as session: the server parameters, the tool-server process and the ClientSession
EnterManagedSession ==
    /\ managed.pc = "create"
    /\ managed.i <= Len(managed.server_names)
    /\ LET server_name == managed.server_names[managed.i] IN
       IF server_name \notin ServerNames
       THEN managed' = [managed EXCEPT
                          !.pc = "done",
                          !.outcome = WithSessionsRaise(
                              Raised("MCPError",
                                     "Server 'unknown' not found in configuration"))]
       ELSE \/ managed' = [managed EXCEPT
                             !.pc = "initialize",
                             !.opened = Append(@, ConnectedSession(server_name))]
            \/ managed' = [managed EXCEPT
                             !.pc = "done",
                             !.outcome = WithSessionsRaise(CreateSessionRaise(
                                 Raised("OSError", "No such file or directory")))]
    /\ UNCHANGED <<keystore, toolserver>>
    /\ UNCHANGED <<chainVars, queryVars, schemaVars, registryVars, historyVars,
                   samplingVars, sessionVars>>

\* await mcp_session.initialize(), the yield, and the body of the async with:
\* sessions[server_name] = session; the body ends there, so the context exit starts
StoreManagedSession ==
    /\ managed.pc = "initialize"
    /\ LET k == Len(managed.opened) IN
       \/ managed' = [managed EXCEPT
                        !.pc = "exit",
                        !.sessions = DictSet(@, managed.opened[k].server_name, k),
                        !.opened[k].initialized = TRUE]
       \/ managed' = [managed EXCEPT
                        !.pc = "done",
                        !.opened[k].state = "closed",
                        !.outcome = WithSessionsRaise(CreateSessionRaise(
                            Raised("MCPError", "Failed to initialize MCP session:  ")))]
    /\ UNCHANGED <<keystore, toolserver>>
    /\ UNCHANGED <<chainVars, queryVars, schemaVars, registryVars, historyVars,
                   samplingVars, sessionVars>>

\* the exit of the async with of this server name: the ClientSession and the
\* connection to the tool server are closed, and the loop goes on
ExitManagedSession ==
    /\ managed.pc = "exit"
    /\ managed' = [managed EXCEPT
                     !.pc = "create",
                     !.i = @ + 1,
                     !.opened[Len(managed.opened)].state = "closed"]
    /\ UNCHANGED <<keystore, toolserver>>
    /\ UNCHANGED <<chainVars, queryVars, schemaVars, registryVars, historyVars,
                   samplingVars, sessionVars>>

\* return await callback(sessions), after the loop: the callback receives the
\* dict; passed records each session of the dict as it is at that moment
InvokeCallback ==
    /\ managed.pc = "create"
    /\ managed.i > Len(managed.server_names)
    /\ managed' = [managed EXCEPT
                     !.pc = "callback",
                     !.invoked = TRUE,
                     !.passed = [n \in DOMAIN managed.sessions.keys |->
                                    managed.opened[managed.sessions.at[
                                        managed.sessions.keys[n]]]]]
    /\ UNCHANGED <<keystore, toolserver>>
    /\ UNCHANGED <<chainVars, queryVars, schemaVars, registryVars, historyVars,
                   samplingVars, sessionVars>>

\* the callback returns or raises; what it raises is caught by with_sessions
CallbackReturns ==
    /\ managed.pc = "callback"
    /\ \/ managed' = [managed EXCEPT !.pc = "done", !.outcome = Returned("result")]
       \/ managed' = [managed EXCEPT
                        !.pc = "done",
                        !.outcome = WithSessionsRaise(
                            Raised("QueryError", "Query execution failed"))]
    /\ UNCHANGED <<keystore, toolserver>>
    /\ UNCHANGED <<chainVars, queryVars, schemaVars, registryVars, historyVars,
                   samplingVars, sessionVars>>

----------------------------------------------------------------------------
(* The API-key store: app/db/database.py *)

\* the names given to keys
KeyNames == {"alice", "bob"}

\* api_key = secrets.token_urlsafe(32): a token no earlier call returned
token_urlsafe(issued) == "key-" \o ToString(issued + 1)

\* the keys a caller can present: the tokens create_key can have returned and one
\* that was never issued
PresentedKeys == { token_urlsafe(n) : n \in 0..(MaxOps - 1) } \cup {"key-never-issued"}

\* the api_keys table after init_db, the number of tokens issued and the calls made
NewKeyStore == [api_keys |-> << >>, issued |-> 0, log |-> << >>]

\* a call on the store, its argument and what it returned
KeyCall(operation, argument, result) ==
    [op |-> operation, argument |-> argument, result |-> result]

\* the rows WHERE key = ?
RowsOf(api_keys, api_key) == { n \in DOMAIN api_keys : api_keys[n].key = api_key }

\* INSERT INTO api_keys (key, name) VALUES (?, ?); is_active defaults to TRUE
create_key(api_keys, api_key, name) ==
    Append(api_keys, [key |-> api_key, name |-> name, last_used |-> 0,
                      is_active |-> TRUE])

\* a verification that does not look at is_active
verify_key_any(api_keys, api_key, utcnow) ==
    LET hit == RowsOf(api_keys, api_key)
    IN  [api_keys |-> [n \in DOMAIN api_keys |->
                          IF n \in hit THEN [api_keys[n] EXCEPT !.last_used = utcnow]
                          ELSE api_keys[n]],
         result |-> IF hit = {} THEN NoneVal ELSE api_keys[CHOOSE n \in hit : TRUE].name]

\* UPDATE api_keys SET last_used = ? WHERE key = ? AND is_active = TRUE RETURNING name;
\* return result['name'] if result else None
verify_key(api_keys, api_key, utcnow) ==
    LET hit == { n \in RowsOf(api_keys, api_key) : api_keys[n].is_active }
    IN  [api_keys |-> [n \in DOMAIN api_keys |->
                          IF n \in hit THEN [api_keys[n] EXCEPT !.last_used = utcnow]
                          ELSE api_keys[n]],
         result |-> IF hit = {} THEN NoneVal ELSE api_keys[CHOOSE n \in hit : TRUE].name]

\* DELETE FROM api_keys WHERE key = ?; return cursor.rowcount > 0
delete_key(api_keys, api_key) ==
    [api_keys |-> SelectSeq(api_keys, LAMBDA row : row.key # api_key),
     result |-> RowsOf(api_keys, api_key) # {}]

\* UPDATE api_keys SET is_active = FALSE WHERE key = ?; return cursor.rowcount > 0
disable_key(api_keys, api_key) ==
    [api_keys |-> [n \in DOMAIN api_keys |->
                      IF api_keys[n].key = api_key
                      THEN [api_keys[n] EXCEPT !.is_active = FALSE]
                      ELSE api_keys[n]],
     result |-> RowsOf(api_keys, api_key) # {}]

\* DB.create_key(name)
CreateKey ==
    /\ Len(keystore.log) < MaxOps
    /\ \E name \in KeyNames :
          LET api_key == token_urlsafe(keystore.issued) IN
          keystore' = [api_keys |-> create_key(keystore.api_keys, api_key, name),
                       issued |-> keystore.issued + 1,
                       log |-> Append(keystore.log, KeyCall("create_key", name, api_key))]
    /\ UNCHANGED <<managed, toolserver>>
    /\ UNCHANGED <<chainVars, queryVars, schemaVars, registryVars, historyVars,
                   samplingVars, sessionVars>>

\* DB.verify_key(api_key), at the time utcnow
VerifyKey ==
    /\ Len(keystore.log) < MaxOps
    /\ \E api_key \in PresentedKeys :
          LET done == verify_key(keystore.api_keys, api_key, Len(keystore.log) + 1) IN
          keystore' = [keystore EXCEPT
                         !.api_keys = done.api_keys,
                         !.log = Append(@, KeyCall("verify_key", api_key, done.result))]
    /\ UNCHANGED <<managed, toolserver>>
    /\ UNCHANGED <<chainVars, queryVars, schemaVars, registryVars, historyVars,
                   samplingVars, sessionVars>>

\* DB.delete_key(api_key)
DeleteKey ==
    /\ Len(keystore.log) < MaxOps
    /\ \E api_key \in PresentedKeys :
          LET done == delete_key(keystore.api_keys, api_key) IN
          keystore' = [keystore EXCEPT
                         !.api_keys = done.api_keys,
                         !.log = Append(@, KeyCall("delete_key", api_key, done.result))]
    /\ UNCHANGED <<managed, toolserver>>
    /\ UNCHANGED <<chainVars, queryVars, schemaVars, registryVars, historyVars,
                   samplingVars, sessionVars>>

\* DB.disable_key(api_key)
DisableKey ==
    /\ Len(keystore.log) < MaxOps
    /\ \E api_key \in PresentedKeys :
          LET done == disable_key(keystore.api_keys, api_key) IN
          keystore' = [keystore EXCEPT
                         !.api_keys = done.api_keys,
                         !.log = Append(@, KeyCall("disable_key", api_key, done.result))]
    /\ UNCHANGED <<managed, toolserver>>
    /\ UNCHANGED <<chainVars, queryVars, schemaVars, registryVars, historyVars,
                   samplingVars, sessionVars>>

----------------------------------------------------------------------------
(* The tool server: mysql_mcp/server.py *)

\* the request handlers that run concurrently in the server's event loop
Handlers == {"h1", "h2"}

\* a statement a client can send: its text, whether it is a SELECT statement and
\* whether running it changes the database
Statement(text, select, modifies) == [text |-> text, select |-> select, modifies |-> modifies]

Statements ==
    { Statement("SELECT month, total FROM sales", TRUE, FALSE),
      Statement("SELECT id, created_at FROM orders", TRUE, FALSE),
      Statement("select name from customers where notes like '%dropped%'", TRUE, FALSE),
      Statement("DELETE FROM orders", FALSE, TRUE),
      Statement("Insert INTO orders VALUES (1)", FALSE, TRUE),
      Statement("TRUNCATE TABLE orders", FALSE, TRUE),
      Statement("REPLACE INTO orders VALUES (1)", FALSE, TRUE) }

\* the keywords of execute_query's check
ForbiddenKeywords == << "insert", "update", "delete", "drop", "alter", "create" >>

\* any(keyword.lower() in query.lower() for keyword in [...])
IsForbidden(query) ==
    \E n \in DOMAIN ForbiddenKeywords :
        Contains(Lower(query), Lower(ForbiddenKeywords[n]))

\* the server process after import: pool = None; calls counts the calls of
\* aiomysql.create_pool, created lists the pools it returned, database lists the
\* statements that reached cursor.execute
NewToolServer(queries) ==
    [pool |-> NoneVal, calls |-> 0, created |-> << >>, database |-> << >>,
     handlers |-> [h \in Handlers |->
                     [pc |-> "call_tool", query |-> queries[h], outcome |-> NoOutcome]]]

\* if not pool:
PoolNeeded(pool) == pool = NoneVal

\* handle_call_tool("query_database", {"query": ...}): if not pool: await
\* initialize_pool(), which tests pool again and calls aiomysql.create_pool; the
\* handler is suspended until the pool is connected
HandleCallTool(h) ==
    /\ toolserver.handlers[h].pc = "call_tool"
    /\ toolserver' =
          IF PoolNeeded(toolserver.pool)
          THEN [toolserver EXCEPT !.calls = @ + 1, !.handlers[h].pc = "create_pool"]
          ELSE [toolserver EXCEPT !.handlers[h].pc = "execute_query"]
    /\ UNCHANGED <<managed, keystore>>
    /\ UNCHANGED <<chainVars, queryVars, schemaVars, registryVars, historyVars,
                   samplingVars, sessionVars>>

\* pool = await aiomysql.create_pool(...): the created pool is assigned to the
\* global, or the failure is raised as Exception("Failed to initialize MySQL pool")
PoolCreated(h) ==
    /\ toolserver.handlers[h].pc = "create_pool"
    /\ \/ LET made == "pool-" \o ToString(Len(toolserver.created) + 1) IN
          toolserver' = [toolserver EXCEPT
                           !.pool = made,
                           !.created = Append(@, made),
                           !.handlers[h].pc = "execute_query"]
       \/ toolserver' = [toolserver EXCEPT
                           !.handlers[h].pc = "done",
                           !.handlers[h].outcome =
                               Raised("Exception", "Failed to initialize MySQL pool:  ")]
    /\ UNCHANGED <<managed, keystore>>
    /\ UNCHANGED <<chainVars, queryVars, schemaVars, registryVars, historyVars,
                   samplingVars, sessionVars>>

\* execute_query(query): the keyword check, then cursor.execute(query) on a
\* connection of the pool
ExecuteQuery(h) ==
    /\ toolserver.handlers[h].pc = "execute_query"
    /\ LET query == toolserver.handlers[h].query.text IN
       toolserver' =
          IF IsForbidden(query)
          THEN [toolserver EXCEPT
                  !.handlers[h].pc = "done",
                  !.handlers[h].outcome =
                      Raised("ValueError", "Only SELECT queries are allowed")]
          ELSE [toolserver EXCEPT
                  !.database = Append(@, query),
                  !.handlers[h].pc = "done",
                  !.handlers[h].outcome = Returned(query)]
    /\ UNCHANGED <<managed, keystore>>
    /\ UNCHANGED <<chainVars, queryVars, schemaVars, registryVars, historyVars,
                   samplingVars, sessionVars>>

----------------------------------------------------------------------------
(* The components at rest, for the specifications that leave them alone *)

SchemaIdle ==
    /\ schema_service = NewSchemaService
    /\ schemaCalls = [r \in Requests |-> IdleSchemaCall(0)]

RegistryIdle ==
    /\ query_services = << >>
    /\ services = << >>
    /\ clients = [c \in Clients |-> IdleClient("mysql")]

HistoryIdle ==
    /\ message_history = << >>
    /\ formatted = NoOutcome

SamplingIdle ==
    sampling = NewSampling("chart", [raised |-> FALSE, tools |-> << >>], 1, << >>, << >>)

SessionIdle ==
    /\ session = NewSession
    /\ transport = NewTransport("none", FALSE)

OuterIdle ==
    /\ managed = NewManaged(<< >>)
    /\ keystore = NewKeyStore
    /\ toolserver = NewToolServer([h \in Handlers |->
                                     Statement("SELECT month, total FROM sales", TRUE, FALSE)])

----------------------------------------------------------------------------
(* Specifications *)

NoRequest == IdleRequest("process_query")

\* the orchestrator core at rest
CoreIdle ==
    /\ responses = << >>
    /\ maxIterations = 0
    /\ serverTools = {}
    /\ toolOutcome = "text"
    /\ chain = [b \in Backends |-> IdleChain]
    /\ api_provider = "anthropic"
    /\ dbOutcomes = << >>
    /\ refineReply = Reply(<< >>)
    /\ req = NoRequest
    /\ SchemaIdle /\ RegistryIdle /\ HistoryIdle /\ SamplingIdle /\ SessionIdle

ChainInit ==
    /\ responses \in SeqsOfLen(ModelResponses, MaxIter)
    /\ maxIterations \in 0..MaxIter
    /\ serverTools \in DiscoveredToolSets
    /\ toolOutcome \in ToolOutcomes
    /\ chain = [b \in Backends |-> IdleChain]
    /\ api_provider = "anthropic"
    /\ dbOutcomes = << >>
    /\ refineReply = Reply(<< >>)
    /\ req = NoRequest
    /\ SchemaIdle /\ RegistryIdle /\ HistoryIdle /\ SamplingIdle /\ SessionIdle /\ OuterIdle

ChainNext == \E b \in Backends : StartChain(b) \/ Round(b)

ChainSpec == ChainInit /\ [][ChainNext]_vars

QueryInit ==
    /\ responses = << >>
    /\ maxIterations = 0
    /\ serverTools = {}
    /\ toolOutcome = "text"
    /\ chain = [b \in Backends |-> IdleChain]
    /\ api_provider \in Backends
    /\ dbOutcomes \in SeqsOfLen(QueryOutcomes, 2)
    /\ refineReply \in RefineReplies
    /\ \E operation \in Operations : req = IdleRequest(operation)
    /\ SchemaIdle /\ RegistryIdle /\ HistoryIdle /\ SamplingIdle /\ SessionIdle /\ OuterIdle

QueryNext ==
    \/ CreateSession
    \/ InitializeSession
    \/ ListPrompts
    \/ GetSchema
    \/ GenerateSql
    \/ ExecuteSql
    \/ RefineOnce
    \/ Respond
    \/ ReleaseSession

QuerySpec == QueryInit /\ [][QueryNext]_vars

----------------------------------------------------------------------------
(* Properties of the tool-use loop *)

\* the names of the domain catalogue, as a set
CatalogueNames == { tools[i] : i \in DOMAIN tools }

\* the reply consumed by the latest model call of backend b
LastResponse(b) == responses[chain[b].modelCalls]

IsServerCall(c) == c.type = "tool_use" /\ c.name \notin CatalogueNames

IsDomainCall(c) == c.type = "tool_use" /\ c.name \in CatalogueNames

HasServerCall(content) == \E i \in DOMAIN content : IsServerCall(content[i])

HasDomainCall(content) == \E i \in DOMAIN content : IsDomainCall(content[i])

\* the domain calls of a reply as {type, params}, in the order proposed
RECURSIVE DomainInvocations(_, _)
DomainInvocations(content, i) ==
    IF i > Len(content) THEN << >>
    ELSE IF IsDomainCall(content[i])
         THEN << [type |-> content[i].name, params |-> content[i].input] >>
              \o DomainInvocations(content, i + 1)
         ELSE DomainInvocations(content, i + 1)

\* the latest round of backend b ran to its end: the provider answered and no tool
\* call of the round raised
RoundCompleted(b) ==
    /\ chain[b].modelCalls >= 1
    /\ ~LastResponse(b).error
    /\ ~(toolOutcome = "raise" /\ HasServerCall(LastResponse(b).content))

Exceeded(b) == chain[b].result = Raise("SamplingError", ExceededMessage)

C2_CatalogueWins ==
    \A b \in Backends :
        /\ \A i \in DOMAIN chain[b].sessionCalls :
              chain[b].sessionCalls[i] \notin CatalogueNames
        /\ (RoundCompleted(b) /\ HasDomainCall(LastResponse(b).content)) =>
              /\ chain[b].result.kind = "return"
              /\ \A i \in DOMAIN LastResponse(b).content :
                    IsDomainCall(LastResponse(b).content[i]) =>
                       \E j \in DOMAIN chain[b].result.tool_calls :
                          chain[b].result.tool_calls[j] =
                             [type |-> LastResponse(b).content[i].name,
                              params |-> LastResponse(b).content[i].input]

\* C2 witness: the server advertises list_charts, the model proposed it, and it came
\* back as a ToolInvocation with no call to the Tool Session
C2_Witness ==
    \E b \in Backends :
        /\ "list_charts" \in serverTools
        /\ chain[b].pc = "done"
        /\ chain[b].result.kind = "return"
        /\ chain[b].result.tool_calls = << [type |-> "list_charts", params |-> ""] >>
        /\ chain[b].sessionCalls = << >>

\* C7 as claimed: a round in which the model proposed a server tool and no domain
\* tool invokes it through the Tool Session, appends the call/result pair to the
\* running messages and does not return a final answer in that round.
C7_ServerToolRoundContinues ==
    \A b \in Backends :
        (/\ RoundCompleted(b)
         /\ HasServerCall(LastResponse(b).content)
         /\ ~HasDomainCall(LastResponse(b).content)) =>
            /\ chain[b].sessionCalls # << >>
            /\ Len(chain[b].messages) = Len(InitialMessages) + 2 * Len(chain[b].sessionCalls)
            /\ chain[b].result.kind # "return"

C9_TextOnlyReturns ==
    \A b \in Backends :
        (/\ RoundCompleted(b)
         /\ HasText(LastResponse(b).content)
         /\ \A i \in DOMAIN LastResponse(b).content :
               LastResponse(b).content[i].type = "text") =>
            /\ chain[b].pc = "done"
            /\ chain[b].result = Return(JoinText(LastResponse(b).content, 1), << >>)

\* C9 witness: both backends returned the two-fragment text of the same reply
C9_Witness ==
    \A b \in Backends :
        /\ chain[b].pc = "done"
        /\ chain[b].result = Return("Sales\nby month", << >>)

SameOutcome(r1, r2) ==
    \/ r1.kind = "raise" /\ r2.kind = "raise"
    \/ /\ r1.kind = "return" /\ r2.kind = "return"
       /\ r1.explanation = r2.explanation
       /\ r1.tool_calls = r2.tool_calls

\* C10 as claimed: on the same messages, tools, bound, replies and tool results the
\* two backends both return the same {explanation, tool_calls} or both fail.
C10_BackendsAgree ==
    (chain["anthropic"].pc = "done" /\ chain["openai"].pc = "done") =>
        SameOutcome(chain["anthropic"].result, chain["openai"].result)

----------------------------------------------------------------------------
(* Properties of the legacy orchestrator and of with_session *)

\* the answers of query_database that are not a result set
FailedExecutions == QueryOutcomes \ {QueryRows}

\* the failures without the database-error shape
OtherFailures == FailedExecutions \ {QueryDbError}

\* the provider's reply that carries a replacement statement
ReplyWithStatement ==
    Reply(<< Text("{sql: SELECT month FROM orders, explanation: fixed the column, thought_process: []}") >>)

FirstExecutionDone == req.operation = "process_query" /\ Len(req.executions) >= 1

\* a request never refines twice and never executes more than two statements
RefinementAtMostOnce == req.refineCalls <= 1 /\ Len(req.executions) <= 2

\* C3 as claimed: when the first execution fails and the database fails the refined
\* statement too, process_query raises QueryError after exactly one refine_sql round
\* trip and exactly two executions.
C3_RefinesOnceThenQueryError ==
    (/\ FirstExecutionDone
     /\ req.pc = "done"
     /\ dbOutcomes[1] \in FailedExecutions
     /\ dbOutcomes[2] \in FailedExecutions
     /\ refineReply = ReplyWithStatement) =>
        /\ req.refineCalls = 1
        /\ Len(req.executions) = 2
        /\ req.outcome.kind = "raise"
        /\ req.outcome.exc = "QueryError"

\* C4 as claimed: a first execution that fails without the database-error shape is
\* followed by no refine_sql call and no second execution.
C4_OtherFailuresNotRetried ==
    (FirstExecutionDone /\ dbOutcomes[1] \in OtherFailures) =>
        /\ req.refineCalls = 0
        /\ Len(req.executions) = 1

\* C5 as claimed: after a first execution that failed with the database-error shape
\* and a refinement reply that carries a replacement statement, that statement is
\* executed, once and with retry disabled.
C5_ReplacementIsReExecuted ==
    (/\ FirstExecutionDone
     /\ req.pc = "done"
     /\ dbOutcomes[1] = QueryDbError
     /\ refineReply = ReplyWithStatement) =>
        /\ req.refineCalls = 1
        /\ Len(req.executions) = 2
        /\ req.executions[2] = [sql |-> "SELECT month FROM orders", retry |-> FALSE]

\* C6: a request that is over holds no open session and no open connection to the
\* tool server, whether its callback returned or raised; and outside with_session
\* nothing is open.
C6_SessionReleased ==
    /\ req.pc \in {"start", "done"} => (req.session # "open" /\ req.conn # "open")
    /\ (req.pc = "done" /\ req.outcome.kind = "raise" /\ req.initialized) =>
          (req.session = "closed" /\ req.conn = "closed")
    /\ (req.pc = "done" /\ req.outcome.kind = "return") =>
          (req.session = "closed" /\ req.conn = "closed")

\* C6 witness: a request that failed after it had used the session to execute SQL
\* ended with the session and the connection closed
C6_Witness ==
    /\ req.pc = "done"
    /\ req.outcome.kind = "raise"
    /\ Len(req.executions) >= 1
    /\ req.session = "closed"
    /\ req.conn = "closed"

----------------------------------------------------------------------------
(* The schema cache under concurrent requests *)

SchemaInit ==
    /\ responses = << >>
    /\ maxIterations = 0
    /\ serverTools = {}
    /\ toolOutcome = "text"
    /\ chain = [b \in Backends |-> IdleChain]
    /\ api_provider = "anthropic"
    /\ dbOutcomes = << >>
    /\ refineReply = Reply(<< >>)
    /\ req = NoRequest
    /\ SchemaIdle /\ RegistryIdle /\ HistoryIdle /\ SamplingIdle /\ SessionIdle /\ OuterIdle

SchemaNext ==
    \E r \in Requests :
        \/ BeginGetSchema(r)
        \/ ListTablesCall(r)
        \/ DescribeTableCall(r)
        \/ NextSchemaCall(r)

SchemaSpec == SchemaInit /\ [][SchemaNext]_vars

----------------------------------------------------------------------------
(* Claims about the schema cache *)

\* the snapshots get_schema has handed out, and the cached one
Snapshots ==
    { schemaCalls[r].result.value :
        r \in { q \in Requests : schemaCalls[q].result.kind = "return" } }
    \cup (IF DictTruthy(schema_service.schema_cache)
          THEN { schema_service.schema_cache } ELSE {})

\* a get_schema call that has ended after missing the cache
Fetched(r) == schemaCalls[r].pc = "done" /\ ~schemaCalls[r].hit

\* the tool-based path of the call retrieved no table's structure
NoTableFromTools(r) == schemaCalls[r].schema.keys = << >>

\* the resource listing of the call would yield no table either
NoTableFromResources(r) ==
    LET fallback == get_schema_from_resources(schemaCalls[r].listing) IN
    fallback.kind = "raise" \/ TablesOf(fallback.value).keys = << >>

\* C13 as claimed: no two get_schema calls on one SchemaService both miss the cache
\* and both write schema_cache; the cache is populated by at most one fetch.
C13_CachePopulatedOnce == schema_service.writes <= 1

\* C14 as claimed: once the snapshot is populated it is reused unchanged; a
\* get_schema call that finds the cache populated returns the snapshot that was
\* populated first and makes no call to the Tool Session.
C14_SnapshotReused ==
    \A r \in Requests :
        (schemaCalls[r].pc = "done" /\ schemaCalls[r].hit) =>
            /\ schemaCalls[r].sessionCalls = 0
            /\ schemaCalls[r].result = Returned(schema_service.first)

\* C15 as claimed: when list_tables / describe_table produced no table at all,
\* _get_schema_from_resources is attempted before get_schema returns.
C15_FallsBackToResources ==
    \A r \in Requests :
        (Fetched(r) /\ schemaCalls[r].listed /\ NoTableFromTools(r)) =>
            schemaCalls[r].resourceCalls >= 1

\* C16 as claimed: when no table's structure could be retrieved (list_tables fails,
\* or every describe_table fails and the fallback yields nothing), get_schema raises
\* SchemaError instead of returning a snapshot.
C16_NoSchemaRaisesSchemaError ==
    \A r \in Requests :
        (/\ Fetched(r)
         /\ \/ ~schemaCalls[r].listed
            \/ NoTableFromTools(r) /\ NoTableFromResources(r)) =>
            /\ schemaCalls[r].result.kind = "raise"
            /\ schemaCalls[r].result.exc = "SchemaError"

\* the tables whose describe_table succeeded, in the order of list_tables
Described(r) == SelectSeq(schemaCalls[r].log, LAMBDA entry : entry # "failed")

\* every structure the call has stored is made of DESCRIBE rows (each descriptor
\* has its Field entry)
ProperStructures(r) ==
    \A n \in DOMAIN schemaCalls[r].schema.keys :
        LET table_data == schemaCalls[r].schema.at[schemaCalls[r].schema.keys[n]] IN
        \A j \in DOMAIN table_data : "Field" \in DOMAIN table_data[j]

C18_RelationshipsPointAtKnownTables ==
    \A snapshot \in Snapshots :
        \A i \in DOMAIN snapshot.at.relationships :
            /\ snapshot.at.relationships[i].to_column = "id"
            /\ InDict(snapshot.at.relationships[i].to_table, TablesOf(snapshot))

\* C18 witness: a returned snapshot relates orders.customers_id to customers
C18_Witness ==
    \E snapshot \in Snapshots :
        \E i \in DOMAIN snapshot.at.relationships :
            snapshot.at.relationships[i] = Relationship("orders", "customers", "customers_id")

EndsWith(s, suffix) ==
    Len(s) >= Len(suffix) /\ SubSeq(s, Len(s) - Len(suffix) + 1, Len(s)) = suffix

\* the name with the suffix _id stripped
StripId(field) ==
    IF EndsWith(field, "_id") THEN SubSeq(field, 1, Len(field) - Len("_id")) ELSE field

\* the stated rule for one column: a multi-value key role or a name ending in _id,
\* and the stripped name is another known table
StatedForeignKey(tables, table, column) ==
    /\ Upper(column.Key) = "MUL" \/ EndsWith(column.Field, "_id")
    /\ StripId(column.Field) \in (DOMAIN tables.at) \ {table}

StatedRelationships(tables) ==
    UNION { { Relationship(table, StripId(tables.at[table][j].Field),
                           tables.at[table][j].Field) :
                j \in { k \in DOMAIN tables.at[table] :
                          StatedForeignKey(tables, table, tables.at[table][k]) } } :
            table \in DOMAIN tables.at }

\* C19 as claimed: a relationship is recorded for a column exactly when its key role
\* is a multi-value index or its name ends in _id, and the stripped name is the name
\* of another known table.
C19_RelationshipsFollowRule ==
    \A snapshot \in Snapshots :
        { snapshot.at.relationships[i] : i \in DOMAIN snapshot.at.relationships }
            = StatedRelationships(TablesOf(snapshot))

----------------------------------------------------------------------------
(* Concurrent requests through the registry *)

RegistryInit ==
    /\ responses = << >>
    /\ maxIterations = 0
    /\ serverTools = {}
    /\ toolOutcome \in {"text", "raise"}
    /\ chain = [b \in Backends |-> IdleChain]
    /\ api_provider \in Backends
    /\ dbOutcomes = << >>
    /\ refineReply = Reply(<< >>)
    /\ req = NoRequest
    /\ query_services = << >>
    /\ services = << >>
    /\ \E server_name \in ServerNames :
          clients = [c \in Clients |->
                        IdleClient(IF c = "c1" THEN "mysql" ELSE server_name)]
    /\ SchemaIdle /\ HistoryIdle /\ SamplingIdle /\ SessionIdle /\ OuterIdle

RegistryNext ==
    \E c \in Clients :
        \/ TestRegistry(c)
        \/ ConstructService(c)
        \/ ReturnService(c)
        \/ StartProcess(c)
        \/ ProcessRound(c)

RegistrySpec == RegistryInit /\ [][RegistryNext]_vars

\* the services constructed for a server name
ServicesOf(server_name) ==
    { i \in DOMAIN services : services[i].server_name = server_name }

\* C11 as claimed: the raw trace in a request's response consists exactly of the
\* fragments its own process_chain call produced, whatever other requests do.
C11_TraceIsRequestScoped ==
    \A c \in Clients :
        clients[c].response.kind = "return" =>
            clients[c].response.value.raw_llm_response = clients[c].own

\* C12 as claimed: for each server name at most one query service is ever
\* constructed, and every get_query_service call for that name returns it.
C12_OneServicePerName ==
    /\ \A server_name \in ServerNames : Cardinality(ServicesOf(server_name)) <= 1
    /\ \A c, d \in Clients :
          (/\ clients[c].service # 0 /\ clients[d].service # 0
           /\ clients[c].server_name = clients[d].server_name) =>
              clients[c].service = clients[d].service

----------------------------------------------------------------------------
(* Building the messages of a request *)

RECURSIVE SeqsUpTo(_, _)
SeqsUpTo(S, n) == IF n = 0 THEN { << >> } ELSE SeqsOfLen(S, n) \cup SeqsUpTo(S, n - 1)

HistoryInit ==
    /\ responses = << >>
    /\ maxIterations = 0
    /\ serverTools = {}
    /\ toolOutcome = "text"
    /\ chain = [b \in Backends |-> IdleChain]
    /\ api_provider = "anthropic"
    /\ dbOutcomes = << >>
    /\ refineReply = Reply(<< >>)
    /\ req = NoRequest
    /\ message_history \in SeqsUpTo(HistoryTurns, MaxHistory)
    /\ formatted = NoOutcome
    /\ SchemaIdle /\ RegistryIdle /\ SamplingIdle /\ SessionIdle /\ OuterIdle

HistoryNext == FormatMessages

HistorySpec == HistoryInit /\ [][HistoryNext]_vars

\* the serialized tool-call log of turn i does not parse
LogUnparsable(i) ==
    /\ ~Falsy(message_history[i].tool_calls)
    /\ from_xml_string(message_history[i].tool_calls).kind = "raise"

\* C20 as claimed: when the tool-call log of any one historical turn fails to parse,
\* message building raises; the turn's tool-call history is never dropped silently.
C20_UnparsableLogRaises ==
    (formatted.kind # "none" /\ \E i \in DOMAIN message_history : LogUnparsable(i)) =>
        formatted.kind = "raise"

\* the logs of recorded calls: every element carries the id of its call
RecordedLogs ==
    { calls \in ElementLists :
        calls # << >> /\ \A k \in DOMAIN calls : "id" \in DOMAIN calls[k] }

\* message is one of the built messages
Built(message) ==
    \E j \in DOMAIN formatted.value : formatted.value[j] = message

\* C21 as claimed: a recorded call serialized to its tagged-text form and parsed back
\* yields the assistant/tool message pair of the recorded call, with the call id,
\* the arguments and the result content preserved.
C21_RoundTripPreservesPair ==
    formatted.kind = "return" =>
        \A i \in DOMAIN message_history : \A calls \in RecordedLogs :
            message_history[i].tool_calls = to_xml_string(calls) =>
                \A k \in DOMAIN calls :
                    /\ Built(to_assistant_message(calls[k]))
                    /\ Built(to_tool_message(calls[k]))

\* the calls the log of a history turn holds, in log order
LoggedCalls(msg) ==
    IF Falsy(msg.tool_calls) \/ ~IsXml(msg.tool_calls) THEN << >>
    ELSE FindAll(msg.tool_calls)

\* the number of messages the turns before turn i stand for
RECURSIVE MessagesBefore(_)
MessagesBefore(i) ==
    IF i = 1 THEN 1
    ELSE MessagesBefore(i - 1) + 1 + 2 * Len(LoggedCalls(message_history[i - 1]))

\* message at position j proposes the call named name
ProposesCall(j, name) ==
    LET m == formatted.value[j] IN
    /\ m.role = "assistant"
    /\ "tool_calls" \in DOMAIN m
    /\ Len(m.tool_calls) = 1
    /\ m.tool_calls[1].name = name

\* message at position j is the result of the call proposed just before it
AnswersCallBefore(j) ==
    LET m == formatted.value[j] IN
    /\ m.role = "tool"
    /\ "tool_call_id" \in DOMAIN m
    /\ "tool_calls" \in DOMAIN formatted.value[j - 1]
    /\ m.tool_call_id = formatted.value[j - 1].tool_calls[1].id

\* C22 as claimed: the built sequence is the developer message, then the history turns
\* in their order, each turn's own content message followed by its tool calls in log
\* order as adjacent (proposed call, tool result) pairs with matching ids, then the
\* question as a user message.
C22_MessagesInOrder ==
    formatted.kind = "return" =>
        LET messages == formatted.value
            n == Len(message_history)
        IN  /\ Len(messages) = MessagesBefore(n + 1) + 1
            /\ messages[1] = [role |-> "developer", content |-> SystemPrompt]
            /\ messages[Len(messages)] = [role |-> "user", content |-> Question]
            /\ \A i \in 1..n :
                 LET start == MessagesBefore(i) + 1
                     calls == LoggedCalls(message_history[i])
                 IN  /\ messages[start].role = message_history[i].role
                     /\ DOMAIN messages[start] = {"role", "content"}
                     /\ \A c \in DOMAIN calls :
                          /\ ProposesCall(start + 2 * c - 1, calls[c].type)
                          /\ AnswersCallBefore(start + 2 * c)

\* the same order, said of the histories whose every log parses
C22_ParsedHistoryInOrder ==
    (\A i \in DOMAIN message_history : ~LogUnparsable(i)) => C22_MessagesInOrder

\* a history of two turns, the first with two logged calls, has been built
C22_ParsedWitness ==
    /\ formatted.kind = "return"
    /\ Len(message_history) = 2
    /\ Len(LoggedCalls(message_history[1])) = 2
    /\ \A i \in DOMAIN message_history : ~LogUnparsable(i)

----------------------------------------------------------------------------
(* Tool-based requests, one after the other on one service *)

SamplingInit ==
    /\ responses = << >>
    /\ maxIterations = 0
    /\ serverTools = {}
    /\ toolOutcome \in {"text", "raise"}
    /\ chain = [b \in Backends |-> IdleChain]
    /\ api_provider \in Backends
    /\ dbOutcomes = << >>
    /\ refineReply = Reply(<< >>)
    /\ req = NoRequest
    /\ \E type \in QueryTypes, listing \in ToolListings :
          sampling = NewSampling(type, listing, 1, << >>, << >>)
    /\ SchemaIdle /\ RegistryIdle /\ HistoryIdle /\ SessionIdle /\ OuterIdle

SamplingNext ==
    \/ BeginQuery
    \/ ListTools
    \/ SamplingRound
    \/ NextQuery

SamplingSpec == SamplingInit /\ [][SamplingNext]_vars

\* the other query type
OtherType(type) == IF type = "chart" THEN "dashboard" ELSE "chart"

\* the tools offered to the model and not disabled by the prompt, for a request of
\* this type on a server advertising these tools
UsableIn(type, listed) ==
    LET given == IF type = "chart" THEN listed ELSE << >>
        all_tools == AllTools(given)
    IN  { all_tools[i] : i \in DOMAIN all_tools } \ construct_system_prompt(type).disabled

\* the tools the running request offers to the model and its prompt leaves usable
UsableNow ==
    { sampling.all_tools[i] : i \in DOMAIN sampling.all_tools }
        \ sampling.system_prompt.disabled

\* the request has entered process_chain with its tool list
ToolsOffered == sampling.pc \in {"loop", "done"} /\ sampling.all_tools # << >>

ChartTools == construct_system_prompt("chart").calls \cup {"create_chart"}

\* the calls the running request forwarded to the tool server
Forwarded ==
    { sampling.chain.sessionCalls[i] : i \in DOMAIN sampling.chain.sessionCalls }

\* C24 as claimed: in chart mode the chart tool the model proposes (preview_chart, or
\* create_chart) is returned to the caller as a single ToolInvocation and is not
\* forwarded to the tool server.
C24_ChartCallReturnedNotForwarded ==
    sampling.type = "chart" =>
        /\ Forwarded \cap ChartTools = {}
        /\ (sampling.pc = "done" /\ sampling.response.kind = "return"
              /\ sampling.response.value.tool_calls # << >>) =>
              /\ Len(sampling.response.value.tool_calls) = 1
              /\ sampling.response.value.tool_calls[1].type \in ChartTools

\* no name occurs twice in a tool list
UniqueNames(list) ==
    \A i, j \in DOMAIN list : list[i] = list[j] => i = j

\* C25 as claimed: tool names are unique across the domain tools and the discovered
\* server tools; no tool list with a duplicated name is sent to the model, and a
\* request whose discovered tools collide with the catalogue ends in an error.
C25_ToolNamesUnique ==
    /\ UniqueNames(sampling.all_tools)
    /\ (sampling.pc \in {"loop", "done"} /\ ~UniqueNames(AllTools(sampling.tools))) =>
          sampling.pc = "done" /\ sampling.response.kind = "raise"

----------------------------------------------------------------------------
(* A request of either path: the legacy request of QueryService, or tool-based *)
(* requests of SamplingService                                                *)

OrchestratorInit == QueryInit \/ SamplingInit

OrchestratorNext ==
    \/ SamplingIdle /\ QueryNext
    \/ ~SamplingIdle /\ SamplingNext

OrchestratorSpec == OrchestratorInit /\ [][OrchestratorNext]_vars

\* the tool-based request is over and a stage of it failed
SamplingStageFailed ==
    \/ sampling.type = "chart" /\ sampling.listing.raised
    \/ sampling.chain.result.kind = "raise"
    \/ sampling.chain.result.explanation = NoneVal

\* the legacy request ran every stage: session, schema, statement, execution
LegacyStagesSucceeded ==
    /\ req.initialized
    /\ req.sql_query # NoneVal
    /\ req.executions # << >>
    /\ req.result # NoneVal
    /\ req.pending.kind = "return"

----------------------------------------------------------------------------
(* The calls of one task on its MCPSession *)

SessionInit ==
    /\ responses = << >>
    /\ maxIterations = 0
    /\ serverTools = {}
    /\ toolOutcome = "text"
    /\ chain = [b \in Backends |-> IdleChain]
    /\ api_provider = "anthropic"
    /\ dbOutcomes = << >>
    /\ refineReply = Reply(<< >>)
    /\ req = NoRequest
    /\ session = NewSession
    /\ transport = NewTransport("none", FALSE)
    /\ SchemaIdle /\ RegistryIdle /\ HistoryIdle /\ SamplingIdle /\ OuterIdle

SessionNext ==
    \/ Initialize
    \/ InitializeReturns
    \/ \E operation \in SessionOperations : Operation(operation)

SessionSpec == SessionInit /\ [][SessionNext]_vars

\* a call before call i of the log was an initialize() that succeeded
InitializedBefore(i) ==
    \E j \in 1..(i - 1) :
        session.log[j].op = "initialize" /\ session.log[j].outcome.kind = "return"

\* the operations other than initialize that were called on an initialized session
Admitted ==
    SelectSeq([i \in DOMAIN session.log |->
                  IF session.log[i].op # "initialize" /\ InitializedBefore(i)
                  THEN session.log[i].op ELSE NoneVal],
              LAMBDA op : op # NoneVal)

\* C27: every operation other than initialize that is called before a successful
\* initialize fails with the not-initialized error and never reaches the
\* underlying session.
C27_NotInitializedRejected ==
    /\ \A i \in DOMAIN session.log :
          (session.log[i].op # "initialize" /\ ~InitializedBefore(i)) =>
              session.log[i].outcome = Raised("MCPError", "MCP session not initialized")
    /\ session.underlying.calls = Admitted

\* a call_tool was made after an initialize that failed
C27_Witness ==
    \E i \in DOMAIN session.log :
        /\ session.log[i].op = "call_tool"
        /\ ~InitializedBefore(i)
        /\ \E j \in 1..(i - 1) :
              session.log[j].op = "initialize" /\ session.log[j].outcome.kind = "raise"

\* the initialize() calls that began before any initialize() had succeeded
RECURSIVE FirstInitializes(_)
FirstInitializes(i) ==
    IF i = 0 THEN 0
    ELSE FirstInitializes(i - 1)
         + (IF session.log[i].op = "initialize" /\ ~InitializedBefore(i) THEN 1 ELSE 0)

\* C28: initialize() is idempotent: the underlying session is initialized
\* successfully at most once, an initialize() after a successful one returns without
\* reaching it, and a failed initialize leaves the session uninitialized.
C28_InitializeIdempotent ==
    /\ session.underlying.initialized <= 1
    /\ session.underlying.attempts =
          FirstInitializes(Len(session.log)) + (IF session.pc = "initializing" THEN 1 ELSE 0)
    /\ \A i \in DOMAIN session.log :
          (session.log[i].op = "initialize" /\ InitializedBefore(i)) =>
              session.log[i].outcome = Returned(NoneVal)
    /\ session.initialized <=> InitializedBefore(Len(session.log) + 1)
    /\ session.initialized <=> session.underlying.initialized = 1

\* initialize() failed, then succeeded, then was called once more
C28_Witness ==
    /\ Len(session.log) = 3
    /\ \A i \in 1..3 : session.log[i].op = "initialize"
    /\ session.log[1].outcome.kind = "raise"
    /\ session.log[2].outcome.kind = "return"
    /\ session.log[3].outcome.kind = "return"

----------------------------------------------------------------------------
(* The calls on one MCPTransport *)

TransportInit ==
    /\ responses = << >>
    /\ maxIterations = 0
    /\ serverTools = {}
    /\ toolOutcome = "text"
    /\ chain = [b \in Backends |-> IdleChain]
    /\ api_provider = "anthropic"
    /\ dbOutcomes = << >>
    /\ refineReply = Reply(<< >>)
    /\ req = NoRequest
    /\ session = NewSession
    /\ \E onclose \in OnClose, onerror \in BOOLEAN :
          transport = NewTransport(onclose, onerror)
    /\ SchemaIdle /\ RegistryIdle /\ HistoryIdle /\ SamplingIdle /\ OuterIdle

TransportNext == Start \/ Send \/ Close

TransportSpec == TransportInit /\ [][TransportNext]_vars

\* a call before call i of the log was a close()
ClosedBefore(i) == \E j \in 1..(i - 1) : transport.log[j].op = "close"

\* C29: close() is safe to call multiple times: the first close closes the transport
\* and fires the onclose callback once; every later close fires no callback and
\* raises no error; once closed, the transport stays closed and send keeps failing.
C29_CloseIdempotent ==
    /\ transport.is_closed <=> ClosedBefore(Len(transport.log) + 1)
    /\ transport.fired =
          (IF transport.is_closed /\ transport.onclose # "none" THEN 1 ELSE 0)
    /\ \A i \in DOMAIN transport.log :
          /\ (transport.log[i].op = "close" /\ ClosedBefore(i)) =>
                transport.log[i].outcome = Returned(NoneVal)
          /\ (transport.log[i].op = "send" /\ ClosedBefore(i)) =>
                transport.log[i].outcome = Raised("RuntimeError", "Transport is closed")

\* a transport with an onclose callback was closed twice and then used to send
C29_Witness ==
    /\ transport.onclose = "returns"
    /\ Len(transport.log) = 3
    /\ transport.log[1].op = "close"
    /\ transport.log[2].op = "close"
    /\ transport.log[3].op = "send"

\* C30: the last-raw-response trace is reset at the start of every process_chain
\* call: after any sequence of calls on one backend instance, the trace holds only
\* the fragments recorded during the most recent call, whether the earlier calls
\* returned or failed.
C30_TraceOfLatestCallOnly ==
    /\ sampling.chain.last_raw_response = sampling.own
    /\ (sampling.pc = "loop" /\ sampling.chain.modelCalls = 0) =>
          sampling.chain.last_raw_response = << >>

\* a process_chain call has begun on a backend that held the trace of an earlier call
C30_Witness ==
    /\ sampling.made = 2
    /\ sampling.pc = "loop"
    /\ sampling.before # << >>
    /\ sampling.chain.modelCalls = 0

----------------------------------------------------------------------------
(* The order of a request's steps *)

\* every occurrence of step b in the request's steps has an earlier step a
StepBefore(a, b) ==
    \A i \in DOMAIN req.steps :
        req.steps[i] = b => \E j \in 1..(i - 1) : req.steps[j] = a

\* the positions of the statement executions in the request's steps
ExecutionSteps == { i \in DOMAIN req.steps : req.steps[i] = "query_database" }

\* C31: each request goes through its steps in the stated order: the session is
\* acquired and initialized before the schema is fetched, the schema is fetched
\* before the model is asked, a statement is executed only after the model
\* proposed it, it is refined only right after an execution that failed, it is
\* executed again only right after the refinement, and no call follows the
\* release of the session
C31_StepsInOrder ==
    /\ StepBefore("create_session", "initialize")
    /\ StepBefore("initialize", "get_schema")
    /\ StepBefore("get_schema", "generate_sql_and_viz")
    /\ StepBefore("generate_sql_and_viz", "query_database")
    /\ \A i \in DOMAIN req.steps :
          req.steps[i] = "refine_sql" =>
              /\ i > 1 /\ req.steps[i - 1] = "query_database"
              /\ execute_query(dbOutcomes[1], TRUE).kind = "refine"
    /\ \A i \in ExecutionSteps :
          (\E j \in ExecutionSteps : j < i) => req.steps[i - 1] = "refine_sql"
    /\ \A i \in DOMAIN req.steps : req.steps[i] = "release" => i = Len(req.steps)
    /\ req.session = "closed" => req.pc = "done"

\* a finished request whose first execution failed and was followed by the
\* refinement call
C31_Witness ==
    /\ req.pc = "done"
    /\ req.steps = << "create_session", "initialize", "get_schema",
                      "generate_sql_and_viz", "query_database", "refine_sql",
                      "release" >>

----------------------------------------------------------------------------
(* with_sessions and its callback *)

ManagedInit ==
    /\ CoreIdle
    /\ \E server_names \in SeqsUpTo(RequestedNames, MaxServers) :
          managed = NewManaged(server_names)
    /\ keystore = NewKeyStore
    /\ toolserver = NewToolServer([h \in Handlers |->
                                     Statement("SELECT month, total FROM sales", TRUE, FALSE)])

ManagedNext ==
    \/ EnterManagedSession
    \/ StoreManagedSession
    \/ ExitManagedSession
    \/ InvokeCallback
    \/ CallbackReturns

ManagedSpec == ManagedInit /\ [][ManagedNext]_vars

\* the callback was invoked with a dict that holds a session
CallbackGotSessions == managed.invoked /\ managed.passed # << >>

\* C32: when with_sessions invokes its callback, the dict it passes holds one
\* session per requested server name, each of them open and initialized, and no
\* session is released while the callback has not finished
C32_CallbackGetsOpenSessions ==
    /\ managed.invoked =>
          /\ \A name \in { managed.server_names[n] : n \in DOMAIN managed.server_names } :
                InDict(name, managed.sessions)
          /\ \A n \in DOMAIN managed.passed :
                managed.passed[n].state = "open" /\ managed.passed[n].initialized
    /\ managed.pc = "callback" =>
          \A n \in DOMAIN managed.opened : managed.opened[n].state = "open"

\* the callback is never handed a session that is still open
C32_EverySessionClosedAtCallback ==
    managed.invoked =>
        \A n \in DOMAIN managed.passed : managed.passed[n].state = "closed"

\* the callback was invoked with the sessions of two servers
C32_Witness ==
    /\ managed.invoked
    /\ Len(managed.passed) = 2

----------------------------------------------------------------------------
(* Errors of the callback of with_session *)

\* the request ended with the error that reports a failed session creation
ReportsSessionCreationFailure ==
    /\ req.pc = "done"
    /\ req.outcome.kind = "raise"
    /\ Contains(req.outcome.msg, "Failed to create MCP session")

\* the callback ran (the session was created and initialized) and raised
CallbackRaised ==
    /\ req.pc = "done"
    /\ req.initialized
    /\ req.pending.kind = "raise"

\* C33: an error raised by the callback of with_session reaches the caller of
\* with_session with the kind the callback raised, and the failure to create the
\* MCP session is reported only when creating or initializing the session failed
C33_CallbackErrorKeepsKind ==
    /\ CallbackRaised =>
          /\ req.outcome.kind = "raise"
          /\ req.outcome.exc = req.pending.exc
    /\ ReportsSessionCreationFailure => ~req.initialized

----------------------------------------------------------------------------
(* The caller's message list *)

\* backend b was entered with the caller's list and still holds that list as given
CallerListUnchanged(b) ==
    chain[b].pc # "idle" => chain[b].callerMessages = InitialMessages

\* C34: in both backends process_chain leaves the caller's message list as it
\* was given: the pairs of server-tool call and result are appended to a
\* sequence private to the call only
C34_CallerMessagesUnchanged == \A b \in Backends : CallerListUnchanged(b)

\* the OpenAI backend alone keeps the caller's list
C34_OpenAIKeepsCallerList == CallerListUnchanged("openai")

----------------------------------------------------------------------------
(* The cache after a failed get_schema *)

\* in this step the get_schema call of request r ends by raising
GetSchemaFails(r) ==
    /\ schemaCalls[r].pc # "done"
    /\ schemaCalls'[r].pc = "done"
    /\ schemaCalls'[r].result.kind = "raise"

\* C35: a get_schema call that raises SchemaError leaves schema_cache and
\* column_cache with the values they had, so that the next call retrieves the
\* schema again
C35_FailedGetSchemaKeepsCache ==
    [][\A r \in Requests :
          GetSchemaFails(r) =>
              /\ schemaCalls'[r].result.exc = "SchemaError"
              /\ schema_service'.schema_cache = schema_service.schema_cache
              /\ schema_service'.column_cache = schema_service.column_cache]_vars

\* the part that holds: a failed get_schema never assigns schema_cache
C35_FailedGetSchemaKeepsSnapshot ==
    [][\A r \in Requests :
          GetSchemaFails(r) =>
              schema_service'.schema_cache = schema_service.schema_cache]_vars

----------------------------------------------------------------------------
(* The response of the legacy process_query *)

\* the legacy request is over and its last execution produced a result
LegacyExecuted ==
    /\ req.pc = "done"
    /\ req.operation = "process_query"
    /\ \/ Len(req.executions) = 1 /\ execute_query(dbOutcomes[1], TRUE).kind = "result"
       \/ Len(req.executions) = 2 /\ execute_query(dbOutcomes[2], FALSE).kind = "result"

C36_NoLegacyResponse ==
    (req.pc = "done" /\ req.operation = "process_query") => req.outcome.kind = "raise"

----------------------------------------------------------------------------
(* The API-key store *)

KeyInit ==
    /\ CoreIdle
    /\ managed = NewManaged(<< >>)
    /\ keystore = NewKeyStore
    /\ toolserver = NewToolServer([h \in Handlers |->
                                     Statement("SELECT month, total FROM sales", TRUE, FALSE)])

KeyNext == CreateKey \/ VerifyKey \/ DeleteKey \/ DisableKey

KeySpec == KeyInit /\ [][KeyNext]_vars

\* call number i on the store is operation op on the key k
KeyCallOn(i, op, k) ==
    keystore.log[i].op = op /\ keystore.log[i].argument = k

\* before call number i, create_key returned k and no disable_key or delete_key
\* was made on k since
ActiveBefore(i, k) ==
    \E j \in 1..(i - 1) :
        /\ keystore.log[j].op = "create_key"
        /\ keystore.log[j].result = k
        /\ \A m \in (j + 1)..(i - 1) :
              ~KeyCallOn(m, "disable_key", k) /\ ~KeyCallOn(m, "delete_key", k)

\* the name given when create_key returned k
NameOf(k) ==
    keystore.log[CHOOSE j \in DOMAIN keystore.log :
                    keystore.log[j].op = "create_key" /\ keystore.log[j].result = k].argument

\* before call number i, create_key returned k and no delete_key was made on k since
StoredBefore(i, k) ==
    \E j \in 1..(i - 1) :
        /\ keystore.log[j].op = "create_key"
        /\ keystore.log[j].result = k
        /\ \A m \in (j + 1)..(i - 1) : ~KeyCallOn(m, "delete_key", k)

\* C37: for every sequence of create_key, disable_key, delete_key and verify_key
\* calls, verify_key(k) returns the key's name exactly when k was returned by an
\* earlier create_key and has been neither disabled nor deleted since, and None
\* otherwise; delete_key(k) returns True exactly when k is stored, so only the
\* first time
C37_VerifyOnlyActiveKeys ==
    \A i \in DOMAIN keystore.log :
        LET k == keystore.log[i].argument IN
        /\ keystore.log[i].op = "verify_key" =>
              keystore.log[i].result = IF ActiveBefore(i, k) THEN NameOf(k) ELSE NoneVal
        /\ keystore.log[i].op = "delete_key" =>
              keystore.log[i].result = StoredBefore(i, k)

\* a key was created, then disabled, and a later verify_key of it returned None
C37_Witness ==
    /\ Len(keystore.log) >= 3
    /\ keystore.log[1].op = "create_key"
    /\ \E i, j \in DOMAIN keystore.log :
          /\ i < j
          /\ KeyCallOn(i, "disable_key", keystore.log[1].result)
          /\ KeyCallOn(j, "verify_key", keystore.log[1].result)
          /\ keystore.log[j].result = NoneVal

----------------------------------------------------------------------------
(* The tool server: read-only queries and the connection pool *)

ServerInit ==
    /\ CoreIdle
    /\ managed = NewManaged(<< >>)
    /\ keystore = NewKeyStore
    /\ \E queries \in [Handlers -> Statements] : toolserver = NewToolServer(queries)

ServerNext == \E h \in Handlers : HandleCallTool(h) \/ PoolCreated(h) \/ ExecuteQuery(h)

ServerSpec == ServerInit /\ [][ServerNext]_vars

\* a SELECT statement that modifies nothing
ReadOnlySelect(statement) == statement.select /\ ~statement.modifies

\* the handler's call went through execute_query and is over
QueryHandled(h) ==
    /\ toolserver.handlers[h].pc = "done"
    /\ toolserver.handlers[h].outcome.exc # "Exception"

\* C38: query_database is read-only: a statement reaches the database if and only
\* if it is a SELECT that modifies nothing, and every other statement is rejected
\* with "Only SELECT queries are allowed"
C38_OnlyReadOnlySelectsExecuted ==
    \A h \in Handlers :
        QueryHandled(h) =>
            LET call == toolserver.handlers[h] IN
            IF ReadOnlySelect(call.query)
            THEN call.outcome = Returned(call.query.text)
            ELSE call.outcome = Raised("ValueError", "Only SELECT queries are allowed")

\* the part that holds: a statement holding one of the six keywords never
\* reaches the database
C38_KeywordStatementsRejected ==
    \A n \in DOMAIN toolserver.database : ~IsForbidden(toolserver.database[n])

\* the handlers whose create_pool call failed
PoolFailures ==
    { h \in Handlers : toolserver.handlers[h].outcome.exc = "Exception" }

\* C39: the server creates at most one connection pool per process: whatever the
\* interleaving of the handlers that call initialize_pool while no pool exists,
\* create_pool is called once (again only after a failed call) and no created
\* pool is replaced by another
C39_OnePoolPerProcess ==
    /\ toolserver.calls - Cardinality(PoolFailures) <= 1
    /\ Len(toolserver.created) <= 1

====
